---- MODULE Spec2Model ----
(***************************************************************************)
(* A model of the game client's network layer and state store:             *)
(*   - the binary codec of clients/ogre3d-py/network/protocol.py           *)
(*     (MessageHeader, GameMessage.serialize / deserialize),               *)
(*   - the transport session of clients/ogre3d-py/network/__init__.py      *)
(*     (GameNetworkClient: connect, disconnect, the receive and the send   *)
(*     thread, the two queues, the per-tick drain),                        *)
(*   - the state store of clients/ogre3d-py/game/__init__.py               *)
(*     (GameStateManager.apply_server_update and its handlers).            *)
(*                                                                         *)
(* Python values are modelled as follows.  Bytes are sequences of numbers  *)
(* in 0..255 and a list is a sequence.  In the session and the store a     *)
(* dict is a function from its keys to its values (k \in DOMAIN d is       *)
(* Python's "k in d"); in the codec, where a dict is written out and read  *)
(* back as JSON text, it is the sequence of its key-value pairs.  An       *)
(* exception that leaves a function is a result that names its class.      *)
(***************************************************************************)
EXTENDS Integers, Sequences, FiniteSets, TLC

VARIABLES
    \* ---- codec (protocol.py) ----
    cPhase,     \* "idle" | "encoded" | "buffer" | "decoded"
    cSrc,       \* "none" | "serialize" | "wire": where cBuf came from
    cMsg,       \* the GameMessage given to serialize (NoMsg when none)
    cBuf,       \* the bytes handed to deserialize
    cRes,       \* what deserialize returned, or the exception it raised
    \* ---- GameNetworkClient (network/__init__.py) ----
    connected,        \* self.connected
    running,          \* self.running
    sock,             \* self.socket: "none" | "unconnected" | "open" | "closed"
    session_id,       \* self.session_id
    player_id,        \* self.player_id
    packets_sent,     \* self.packets_sent
    outgoing_queue,   \* self.outgoing_queue
    incoming_queue,   \* self.incoming_queue
    \* ---- the threads ----
    apc,        \* the caller of connect() / disconnect(): where it stands
    rpc,        \* the receive thread: "none" | "loop" | "recv" | "frames" | "done"
    rbuf,       \* receive_loop's local buffer
    rexit,      \* why receive_loop ended: "" | "stopped" | "eof" | "error"
    spc,        \* the send thread: "none" | "loop" | "get" | "write" | "done"
    shold,      \* send_loop's local message, taken off the queue, not yet written
    sexit,      \* why send_loop ended: "" | "stopped" | "error"
    tpc,        \* the main thread inside process_messages: "idle" | "drain"
    \* ---- the connection and the server ----
    rdCond,     \* the read side: "up" | "eof" (peer closed) | "err" (recv raises)
    wrBroken,   \* the write side: TRUE when sendall raises
    wire_in,    \* bytes the server has sent that recv has not returned yet
    wire_out,   \* the frames written to the socket, in order
    \* ---- GameStateManager (game/__init__.py) ----
    gs,         \* player, entities, chunks, chat_messages
    clock,      \* time.time()
    saved_file, \* the file save_state wrote: what json.load makes of it
    \* ---- history, for the properties ----
    hFrames,    \* the frames receive_loop split off its buffer, in order
    hEnq,       \* the records put on incoming_queue, in order
    hApplied,   \* the records process_messages passed to apply_server_update
    hOut,       \* the messages put on outgoing_queue, in order
    hPopped,    \* the messages send_loop took while connected was True
    hDropped,   \* the messages whose socket write raised
    hTick,      \* the current or last process_messages call: what was queued
                \* when it began, how many records it has passed to
                \* apply_server_update, and how it ended
    hSaved,     \* the store as it was when save_state wrote the file
    hLoaded,    \* what the last load_state returned: "none" | "True" | "False"
    hSaveResult, \* how the last save_state ended: "none" | "None" | "raised"
    \* ---- every thread connect() has started, not the last one only ----
    receive_alive,  \* number of threads inside receive_loop
    send_alive,     \* number of threads inside send_loop
    \* ---- the statements of send_message, thread by thread ----
    sending,    \* for the connect thread and the main thread: where it is
                \* inside send_message ("out" | "put" | "loaded") and the
                \* value of self.packets_sent it has read
    \* ---- scripts/quests.py ----
    player_quests,  \* player_quests: player id -> quest id -> progress
    rewards_given,  \* how often complete_quest gave the rewards of a quest
                    \* to a player
    quest_call,     \* the function of the quest module that was called last
    quest_result    \* how it ended: "none" | "None" | "True" | "False" | "KeyError"

codecVars == <<cPhase, cSrc, cMsg, cBuf, cRes>>
clientVars == <<connected, running, sock, session_id, player_id, packets_sent,
                outgoing_queue, incoming_queue>>
threadVars == <<apc, rpc, rbuf, rexit, spc, shold, sexit, tpc>>
netVars == <<rdCond, wrBroken, wire_in, wire_out>>
histVars == <<hFrames, hEnq, hApplied, hOut, hPopped, hDropped, hTick>>
fileVars == <<saved_file, hSaved, hLoaded, hSaveResult>>
flowVars == <<receive_alive, send_alive>>
callVars == <<sending>>
questVars == <<player_quests, rewards_given, quest_call, quest_result>>
sessionVars == <<clientVars, threadVars, netVars, gs, clock, fileVars, flowVars, callVars, questVars,
                 histVars>>
vars == <<codecVars, sessionVars>>

(***************************************************************************)
(* Python results                                                          *)
(***************************************************************************)
PyNone == [kind |-> "None"]
Raise(e) == [kind |-> "raise", exc |-> e]
Bytes(b) == [kind |-> "bytes", v |-> b]

RECURSIVE SumSeq(_)
SumSeq(s) == IF s = <<>> THEN 0 ELSE Head(s) + SumSeq(Tail(s))

\* 0 <= n < 256^k, computed without forming 256^k
RECURSIVE FitsBytes(_, _)
FitsBytes(n, k) == IF k = 0 THEN n = 0 ELSE n >= 0 /\ FitsBytes(n \div 256, k - 1)

(***************************************************************************)
(* protocol.py: MessageType                                                *)
(***************************************************************************)
\* protocol.py:14-25, client -> server, 0x01..0x0C
ClientTypes == 1..12
\* protocol.py:28-38, server -> client, 0x81..0x8B
ServerTypes == 129..139
MessageTypeValues == ClientTypes \cup ServerTypes

\* MessageType(value): the member, or ValueError for a value outside the enum
MessageTypeOf(val) ==
    IF val \in MessageTypeValues THEN [kind |-> "enum", v |-> val]
    ELSE Raise("ValueError")

(***************************************************************************)
(* struct.pack / struct.unpack with the format '!HIII': network byte order,*)
(* standard sizes, no padding: one 2-byte and three 4-byte unsigned fields.*)
(***************************************************************************)
HeaderFormat == <<2, 4, 4, 4>>
\* struct.calcsize('!HIII')
CalcSize == SumSeq(HeaderFormat)

\* MessageHeader.SIZE
SIZE == 12

RECURSIVE BigEndian(_, _)
BigEndian(n, k) ==
    IF k = 0 THEN <<>> ELSE BigEndian(n \div 256, k - 1) \o <<n % 256>>

RECURSIVE FromBigEndian(_)
FromBigEndian(bs) ==
    IF bs = <<>> THEN 0
    ELSE FromBigEndian(SubSeq(bs, 1, Len(bs) - 1)) * 256 + bs[Len(bs)]

\* struct.pack('!HIII', a, b, c, d): struct.error when a value does not fit
StructPack(vals) ==
    IF \E i \in 1..Len(HeaderFormat) :
           ~FitsBytes(vals[i], HeaderFormat[i])
    THEN Raise("struct.error")
    ELSE Bytes(BigEndian(vals[1], HeaderFormat[1]) \o BigEndian(vals[2], HeaderFormat[2])
               \o BigEndian(vals[3], HeaderFormat[3]) \o BigEndian(vals[4], HeaderFormat[4]))

\* struct.unpack('!HIII', data): struct.error unless len(data) == calcsize
StructUnpack(data) ==
    IF Len(data) # CalcSize THEN Raise("struct.error")
    ELSE [kind |-> "tuple",
          v |-> <<FromBigEndian(SubSeq(data, 1, 2)),
                  FromBigEndian(SubSeq(data, 3, 6)),
                  FromBigEndian(SubSeq(data, 7, 10)),
                  FromBigEndian(SubSeq(data, 11, 14))>>]

(***************************************************************************)
(* MessageHeader                                                           *)
(***************************************************************************)
MessageHeader(msg_type, size, sid, flags) ==
    [kind |-> "header", msg_type |-> msg_type, size |-> size,
     session_id |-> sid, flags |-> flags]

\* MessageHeader.pack
HeaderPack(h) == StructPack(<<h.msg_type, h.size, h.session_id, h.flags>>)

\* MessageHeader.unpack
HeaderUnpack(data) ==
    LET t == StructUnpack(data) IN
    IF t.kind = "raise" THEN t
    ELSE LET mt == MessageTypeOf(t.v[1]) IN
         IF mt.kind = "raise" THEN mt
         ELSE MessageHeader(mt.v, t.v[2], t.v[3], t.v[4])

(***************************************************************************)
(* JSON values: a number, a string (a sequence of character codes), null,  *)
(* a list, or an object (the sequence of its <<key, value>> pairs in       *)
(* insertion order, keys unique, as a Python dict keeps them).             *)
(***************************************************************************)
\* Every value has the same fields, so that any two values compare: n is the
\* number, s the characters, items the elements (a list's elements are pairs
\* with the empty key).
JInt(n) == [t |-> "int", n |-> n, s |-> <<>>, items |-> <<>>]
JStr(s) == [t |-> "str", n |-> 0, s |-> s, items |-> <<>>]
JNull == [t |-> "null", n |-> 0, s |-> <<>>, items |-> <<>>]
JArr(xs) == [t |-> "arr", n |-> 0, s |-> <<>>,
             items |-> [i \in 1..Len(xs) |-> <<<<>>, xs[i]>>]]
JObj(ps) == [t |-> "obj", n |-> 0, s |-> <<>>, items |-> ps]

\* bool(x) is False: None, 0, "", [] and {}
Falsy(j) ==
    \/ j.t = "null"
    \/ j.t = "int" /\ j.n = 0
    \/ j.t = "str" /\ j.s = <<>>
    \/ j.t \in {"arr", "obj"} /\ j.items = <<>>

\* d[k] = x on a dict kept as a sequence of pairs: an existing key keeps its
\* place, a new one goes last
DictSet(d, k, x) ==
    IF \E i \in 1..Len(d) : d[i][1] = k
    THEN [i \in 1..Len(d) |-> IF d[i][1] = k THEN <<k, x>> ELSE d[i]]
    ELSE Append(d, <<k, x>>)

\* a == b on dicts: the same keys with the same values, in any order
DictEq(a, b) ==
    /\ a.t = "obj" /\ b.t = "obj"
    /\ {a.items[i] : i \in 1..Len(a.items)} = {b.items[i] : i \in 1..Len(b.items)}

\* str(n) for n >= 0, as character codes ('0' is 48)
RECURSIVE Digits(_)
Digits(n) == IF n < 10 THEN <<48 + n>> ELSE Digits(n \div 10) \o <<48 + (n % 10)>>

\* json.dumps(x, separators=(',', ':')).encode('utf-8')
RECURSIVE Dumps(_), DumpsItems(_), DumpsMembers(_)
Dumps(j) ==
    CASE j.t = "int"  -> Digits(j.n)
      [] j.t = "str"  -> <<34>> \o j.s \o <<34>>
      [] j.t = "null" -> <<110, 117, 108, 108>>
      [] j.t = "arr"  -> <<91>> \o DumpsItems(j.items) \o <<93>>
      [] j.t = "obj"  -> <<123>> \o DumpsMembers(j.items) \o <<125>>

DumpsItems(s) ==
    IF s = <<>> THEN <<>>
    ELSE IF Len(s) = 1 THEN Dumps(s[1][2])
    ELSE Dumps(s[1][2]) \o <<44>> \o DumpsItems(Tail(s))

DumpsMembers(s) ==
    IF s = <<>> THEN <<>>
    ELSE LET m == <<34>> \o s[1][1] \o <<34, 58>> \o Dumps(s[1][2]) IN
         IF Len(s) = 1 THEN m ELSE m \o <<44>> \o DumpsMembers(Tail(s))

\* bytes.decode('utf-8'): UnicodeDecodeError on a byte that starts no valid
\* sequence.  The buffers of this model hold ASCII and the byte 0xFF only.
DecodeUtf8(bs) ==
    IF \E i \in 1..Len(bs) : bs[i] >= 128 THEN Raise("UnicodeDecodeError")
    ELSE [kind |-> "str", v |-> bs]

\* json.loads, as a recursive-descent parser of the syntax Dumps writes
\* (no white space, no escapes, no fractions, no true/false)
ParseFail == [ok |-> FALSE, val |-> JNull, rest |-> <<>>]
ParseOk(x, rest) == [ok |-> TRUE, val |-> x, rest |-> rest]

RECURSIVE TakeDigits(_)
TakeDigits(s) ==
    IF s # <<>> /\ s[1] \in 48..57 THEN <<s[1]>> \o TakeDigits(Tail(s)) ELSE <<>>

RECURSIVE DigitsValue(_)
DigitsValue(ds) ==
    IF ds = <<>> THEN 0
    ELSE DigitsValue(SubSeq(ds, 1, Len(ds) - 1)) * 10 + (ds[Len(ds)] - 48)

\* the characters of a string up to its closing quote
RECURSIVE TakeString(_)
TakeString(s) ==
    IF s # <<>> /\ s[1] \in 97..122 THEN <<s[1]>> \o TakeString(Tail(s)) ELSE <<>>

Drop(s, n) == SubSeq(s, n + 1, Len(s))

ParseString(s) ==
    \* s starts after the opening quote
    LET body == TakeString(s)
        after == Drop(s, Len(body))
    IN IF after # <<>> /\ after[1] = 34 THEN ParseOk(JStr(body), Tail(after))
       ELSE ParseFail

RECURSIVE ParseValue(_), ParseItems(_, _), ParseMembers(_, _)
ParseValue(s) ==
    IF s = <<>> THEN ParseFail
    ELSE CASE s[1] = 123 ->
                IF Len(s) >= 2 /\ s[2] = 125 THEN ParseOk(JObj(<<>>), Drop(s, 2))
                ELSE ParseMembers(Tail(s), <<>>)
           [] s[1] = 91 ->
                IF Len(s) >= 2 /\ s[2] = 93 THEN ParseOk(JArr(<<>>), Drop(s, 2))
                ELSE ParseItems(Tail(s), <<>>)
           [] s[1] = 34 -> ParseString(Tail(s))
           [] s[1] \in 48..57 ->
                \* a leading 0 is a number of its own
                LET ds == IF s[1] = 48 THEN <<48>> ELSE TakeDigits(s) IN
                ParseOk(JInt(DigitsValue(ds)), Drop(s, Len(ds)))
           [] s[1] = 110 ->
                IF Len(s) >= 4 /\ SubSeq(s, 1, 4) = <<110, 117, 108, 108>>
                THEN ParseOk(JNull, Drop(s, 4)) ELSE ParseFail
           [] OTHER -> ParseFail

ParseItems(s, acc) ==
    LET r == ParseValue(s) IN
    IF ~r.ok \/ r.rest = <<>> THEN ParseFail
    ELSE IF r.rest[1] = 93 THEN ParseOk(JArr(Append(acc, r.val)), Tail(r.rest))
    ELSE IF r.rest[1] = 44 THEN ParseItems(Tail(r.rest), Append(acc, r.val))
    ELSE ParseFail

ParseMembers(s, acc) ==
    IF s = <<>> \/ s[1] # 34 THEN ParseFail
    ELSE LET k == ParseString(Tail(s)) IN
         IF ~k.ok \/ k.rest = <<>> \/ k.rest[1] # 58 THEN ParseFail
         ELSE LET r == ParseValue(Tail(k.rest)) IN
              IF ~r.ok \/ r.rest = <<>> THEN ParseFail
              ELSE IF r.rest[1] = 125
                   THEN ParseOk(JObj(DictSet(acc, k.val.s, r.val)), Tail(r.rest))
              ELSE IF r.rest[1] = 44
                   THEN ParseMembers(Tail(r.rest), DictSet(acc, k.val.s, r.val))
              ELSE ParseFail

\* json.loads(text): the value, or json.JSONDecodeError
Loads(text) ==
    LET r == ParseValue(text) IN
    IF r.ok /\ r.rest = <<>> THEN [kind |-> "json", v |-> r.val]
    ELSE Raise("JSONDecodeError")

(***************************************************************************)
(* GameMessage                                                             *)
(***************************************************************************)
\* GameMessage.__init__: self.data = data or {}
GameMessage(msg_type, data, sid) ==
    [kind |-> "msg", msg_type |-> msg_type,
     data |-> IF Falsy(data) THEN JObj(<<>>) ELSE data,
     session_id |-> sid, timestamp |-> 0, sequence |-> 0]

\* GameMessage.serialize
Serialize(m) ==
    LET json_bytes == Dumps(m.data)
        header == MessageHeader(m.msg_type, Len(json_bytes), m.session_id, 0)
        packed == HeaderPack(header)
    IN IF packed.kind = "raise" THEN packed
       ELSE Bytes(packed.v \o json_bytes)

\* GameMessage.deserialize
Deserialize(data) ==
    IF Len(data) < SIZE THEN PyNone
    ELSE LET header == HeaderUnpack(SubSeq(data, 1, SIZE)) IN
         IF header.kind = "raise" THEN header
         ELSE IF Len(data) < SIZE + header.size THEN PyNone
         ELSE LET json_data == SubSeq(data, SIZE + 1, SIZE + header.size)
                  text == DecodeUtf8(json_data)
              IN IF text.kind = "raise" THEN text
                 ELSE LET data_dict == Loads(text.v) IN
                      IF data_dict.kind = "raise" THEN PyNone
                      ELSE GameMessage(header.msg_type, data_dict.v,
                                       header.session_id)

(***************************************************************************)
(* game/__init__.py: GameStateManager.  The store is the record            *)
(* [player, entities, chunks, chat_messages, game_time, time_of_day];       *)
(* entities maps an entity id                                              *)
(* to its EntityState, chunks maps a chunk key to its WorldChunk.  A       *)
(* handler returns the store it leaves behind and the exception it raised  *)
(* ("" when it returned); what it changed before raising stays changed.    *)
(* A position is a list of three numbers, each a whole number of units of  *)
(* precision (the spacing of the values the arithmetic can represent,      *)
(* taken to be a thousandth); a result that falls between two such values  *)
(* is rounded to the nearer.                                               *)
(***************************************************************************)
\* d.get(k, default)
Get(d, k, default) == IF k \in DOMAIN d THEN d[k] ELSE default

\* {} and []
EmptyDict == << >>
EmptyList == << >>

\* d[k] = x
Put(d, k, x) == [j \in DOMAIN d \cup {k} |-> IF j = k THEN x ELSE d[j]]

\* d.update(e)
DictUpdate(d, e) == [j \in DOMAIN d \cup DOMAIN e |-> IF j \in DOMAIN e THEN e[j] ELSE d[j]]

\* no file of that name
NoFile == [exists |-> FALSE]

Returned(g) == [gs |-> g, exc |-> ""]
Raised(g, e) == [gs |-> g, exc |-> e]

\* PlayerState()
NewPlayerState ==
    [player_id |-> 0, position |-> <<0, 0, 0>>, rotation |-> <<0, 0, 0, 1>>,
     velocity |-> <<0, 0, 0>>, health |-> 100, max_health |-> 100,
     mana |-> 100, max_mana |-> 100, level |-> 1, experience |-> 0,
     inventory |-> EmptyDict, equipment |-> EmptyDict, skills |-> EmptyDict]

\* self.time_of_day = 12.0, in thousandths of a second since midnight
NoonOfDay == 43200000

\* GameStateManager.__init__; game_time is in thousandths of a second
NewStore ==
    [player |-> NewPlayerState, entities |-> EmptyDict, chunks |-> EmptyDict,
     chat_messages |-> EmptyList, game_time |-> 0, time_of_day |-> NoonOfDay]

\* f"{chunk_x}_{chunk_z}": one key per pair of integers
ChunkKey(chunk_x, chunk_z) == <<chunk_x, chunk_z>>

\* WorldChunk(chunk_x, chunk_z, terrain_data, entities=[]): loaded is False
\* and last_accessed is time.time()
NewWorldChunk(chunk_x, chunk_z, terrain, now) ==
    [chunk_x |-> chunk_x, chunk_z |-> chunk_z, terrain_data |-> terrain,
     entities |-> EmptyList, loaded |-> FALSE, last_accessed |-> now]

\* a store that appends the entity instead of putting it under its id, to
\* show what the uniqueness property rests on
StoreEntityAppended(g, entity) ==
    [g EXCEPT !.entities = Put(@, 100 + Cardinality(DOMAIN @), entity)]

\* self.entities[entity.entity_id] = entity
StoreEntity(g, entity) == [g EXCEPT !.entities = Put(@, entity.entity_id, entity)]

\* create_entity_from_data: KeyError without 'id'
CreateEntityFromData(g, entity_data) ==
    IF "id" \notin DOMAIN entity_data THEN Raised(g, "KeyError")
    ELSE LET entity ==
                 [entity_id |-> entity_data.id,
                  entity_type |-> Get(entity_data, "type", "unknown"),
                  position |-> Get(entity_data, "position", <<0, 0, 0>>),
                  rotation |-> Get(entity_data, "rotation", <<0, 0, 0, 1>>),
                  velocity |-> Get(entity_data, "velocity", <<0, 0, 0>>),
                  health |-> Get(entity_data, "health", 100),
                  max_health |-> Get(entity_data, "max_health", 100),
                  mesh_name |-> Get(entity_data, "mesh", ""),
                  material_name |-> Get(entity_data, "material", ""),
                  visible |-> Get(entity_data, "visible", TRUE),
                  animation |-> Get(entity_data, "animation", "None"),
                  data |-> Get(entity_data, "data", EmptyDict)]
         IN Returned(StoreEntity(g, entity))

\* an update that snaps to the reported coordinate, to show what the
\* interpolation property rests on
Snap(p, new) == new

\* an update that goes a fifth beyond the reported coordinate, to show what
\* the convergence property rests on
Extrapolate(p, new) == p + ((6 * (new - p) + 2) \div 5)

\* position[i] += (new_pos[i] - position[i]) * 0.2, rounded to the nearest
\* unit: a fifth of a whole number is never half-way between two
Interpolate(p, new) == p + ((new - p + 2) \div 5)

\* an update that puts the reported mapping in the place of the entity's, to
\* show what the merge property rests on
UpdateEntityReplacesData(g, entity_id, entity_data) ==
    IF entity_id \notin DOMAIN g.entities THEN Returned(g)
    ELSE LET e0 == g.entities[entity_id]
             e1 == [e0 EXCEPT
                      !.rotation = Get(entity_data, "rotation", @),
                      !.health = Get(entity_data, "health", @),
                      !.visible = Get(entity_data, "visible", @),
                      !.animation = Get(entity_data, "animation", @),
                      !.data = Get(entity_data, "data", @)]
         IN Returned([g EXCEPT !.entities[entity_id] = e1])

\* update_entity_from_data
UpdateEntityFromData(g, entity_id, entity_data) ==
    IF entity_id \notin DOMAIN g.entities THEN Returned(g)
    ELSE LET e0 == g.entities[entity_id]
             e1 == IF "position" \in DOMAIN entity_data
                   THEN [e0 EXCEPT !.position =
                            [i \in 1..3 |-> Interpolate(@[i], entity_data.position[i])]]
                   ELSE e0
             e2 == IF "rotation" \in DOMAIN entity_data
                   THEN [e1 EXCEPT !.rotation = entity_data.rotation] ELSE e1
             e3 == IF "health" \in DOMAIN entity_data
                   THEN [e2 EXCEPT !.health = entity_data.health] ELSE e2
             e4 == IF "visible" \in DOMAIN entity_data
                   THEN [e3 EXCEPT !.visible = entity_data.visible] ELSE e3
             e5 == IF "animation" \in DOMAIN entity_data
                   THEN [e4 EXCEPT !.animation = entity_data.animation] ELSE e4
             e6 == IF "data" \in DOMAIN entity_data
                   THEN [e5 EXCEPT !.data = DictUpdate(@, entity_data.data)] ELSE e5
         IN Returned([g EXCEPT !.entities[entity_id] = e6])

\* update_player_from_data
UpdatePlayerFromData(g, player_data) ==
    LET p0 == g.player
        p1 == IF "position" \in DOMAIN player_data
              THEN [p0 EXCEPT !.position = player_data.position] ELSE p0
        p2 == IF "rotation" \in DOMAIN player_data
              THEN [p1 EXCEPT !.rotation = player_data.rotation] ELSE p1
        p3 == IF "health" \in DOMAIN player_data
              THEN [p2 EXCEPT !.health = player_data.health] ELSE p2
        p4 == IF "max_health" \in DOMAIN player_data
              THEN [p3 EXCEPT !.max_health = player_data.max_health] ELSE p3
    IN Returned([g EXCEPT !.player = p4])

\* the loop of handle_world_chunk over the chunk's entities
RECURSIVE ChunkEntities(_, _)
ChunkEntities(g, entity_data) ==
    IF entity_data = << >> THEN Returned(g)
    ELSE LET entity_info == Head(entity_data) IN
         IF "id" \notin DOMAIN entity_info THEN Raised(g, "KeyError")
         ELSE LET r == IF entity_info.id \in DOMAIN g.entities
                       THEN UpdateEntityFromData(g, entity_info.id, entity_info)
                       ELSE CreateEntityFromData(g, entity_info)
              IN IF r.exc # "" THEN r ELSE ChunkEntities(r.gs, Tail(entity_data))

\* handle_world_chunk
HandleWorldChunk(g, data, now) ==
    IF ~({"chunk_x", "chunk_z"} \subseteq DOMAIN data) THEN Raised(g, "KeyError")
    ELSE LET chunk_key == ChunkKey(data.chunk_x, data.chunk_z)
             payload == Get(data, "data", EmptyDict)
             g1 == IF chunk_key \in DOMAIN g.chunks THEN g
                   ELSE [g EXCEPT !.chunks =
                            Put(@, chunk_key,
                                NewWorldChunk(data.chunk_x, data.chunk_z,
                                              Get(payload, "terrain", EmptyList), now))]
             g2 == [g1 EXCEPT !.chunks[chunk_key].loaded = TRUE,
                              !.chunks[chunk_key].last_accessed = now]
         IN ChunkEntities(g2, Get(payload, "entities", EmptyList))

\* handle_entity_update
RECURSIVE HandleEntityUpdateLoop(_, _)
HandleEntityUpdateLoop(g, entities) ==
    IF entities = << >> THEN Returned(g)
    ELSE LET entity_info == Head(entities) IN
         IF "id" \notin DOMAIN entity_info THEN Raised(g, "KeyError")
         ELSE LET r == IF entity_info.id = g.player.player_id
                       THEN UpdatePlayerFromData(g, entity_info)
                       ELSE IF entity_info.id \in DOMAIN g.entities
                       THEN UpdateEntityFromData(g, entity_info.id, entity_info)
                       ELSE CreateEntityFromData(g, entity_info)
              IN IF r.exc # "" THEN r ELSE HandleEntityUpdateLoop(r.gs, Tail(entities))

HandleEntityUpdate(g, data) ==
    HandleEntityUpdateLoop(g, Get(data, "entities", EmptyList))

\* a player update that smooths the position as entity updates do, to show
\* what the player-authority property rests on
HandlePlayerUpdateSmoothed(g, data) ==
    LET p0 == g.player
        p1 == IF "position" \in DOMAIN data
              THEN [p0 EXCEPT !.position =
                       [i \in 1..3 |-> @[i] + ((data.position[i] - @[i]) \div 5)]]
              ELSE p0
    IN [gs |-> [g EXCEPT !.player = p1], exc |-> ""]

\* handle_player_update
HandlePlayerUpdate(g, data) ==
    LET p0 == g.player
        p1 == IF "health" \in DOMAIN data THEN [p0 EXCEPT !.health = data.health] ELSE p0
        p2 == IF "max_health" \in DOMAIN data
              THEN [p1 EXCEPT !.max_health = data.max_health] ELSE p1
        p3 == IF "position" \in DOMAIN data
              THEN [p2 EXCEPT !.position = data.position] ELSE p2
        p4 == IF "rotation" \in DOMAIN data
              THEN [p3 EXCEPT !.rotation = data.rotation] ELSE p3
    IN Returned([g EXCEPT !.player = p4])

\* the number of chat messages kept
ChatLimit == 1000

\* a chat log that keeps the first ChatLimit messages, to show what the chat
\* bound rests on
HandleChatMessageKeepsFirst(g, data, now) ==
    LET chat_message == [sender |-> Get(data, "sender", "Unknown"),
                         message |-> Get(data, "message", ""),
                         channel |-> Get(data, "channel", "global"),
                         timestamp |-> now]
        all == Append(g.chat_messages, chat_message)
    IN [gs |-> [g EXCEPT !.chat_messages =
                   IF Len(all) > ChatLimit THEN SubSeq(all, 1, ChatLimit) ELSE all],
        exc |-> ""]

\* handle_chat_message
HandleChatMessage(g, data, now) ==
    LET chat_message == [sender |-> Get(data, "sender", "Unknown"),
                         message |-> Get(data, "message", ""),
                         channel |-> Get(data, "channel", "global"),
                         timestamp |-> now]
        all == Append(g.chat_messages, chat_message)
    IN Returned([g EXCEPT !.chat_messages =
                    IF Len(all) > ChatLimit
                    THEN SubSeq(all, Len(all) - ChatLimit + 1, Len(all))
                    ELSE all])

\* handle_collision: prints, changes nothing
HandleCollision(g, data) == Returned(g)

\* handle_npc_interaction: every branch is "pass"
HandleNpcInteraction(g, data) == Returned(g)

\* apply_server_update
ApplyServerUpdate(g, update_data, now) ==
    LET update_type == Get(update_data, "type", "None") IN
    CASE update_type = "world_chunk" -> HandleWorldChunk(g, update_data, now)
      [] update_type = "entity_update" -> HandleEntityUpdate(g, update_data)
      [] update_type = "player_update" -> HandlePlayerUpdate(g, update_data)
      [] update_type = "chat" -> HandleChatMessage(g, update_data, now)
      [] update_type = "collision" -> HandleCollision(g, update_data)
      [] update_type = "npc_interaction" -> HandleNpcInteraction(g, update_data)
      [] OTHER -> Returned(g)

\* seconds a chunk stays loaded after its last access
ChunkTimeout == 60

\* a test that also takes a chunk last accessed exactly ChunkTimeout seconds
\* ago, to show what the eviction property rests on
StaleAtLimit(current_time, chunk) == current_time - chunk.last_accessed >= ChunkTimeout

\* current_time - chunk.last_accessed > 60
Stale(current_time, chunk) == current_time - chunk.last_accessed > ChunkTimeout

\* a pass that also drops the entities when it drops a chunk, to show what
\* the frame property rests on
CleanupChunksAndEntities(g, current_time) ==
    LET kept == {k \in DOMAIN g.chunks : ~Stale(current_time, g.chunks[k])}
    IN [g EXCEPT !.chunks = [k \in kept |-> g.chunks[k]],
                 !.entities = IF kept = DOMAIN g.chunks THEN @ ELSE EmptyDict]

\* cleanup_chunks, with current_time = time.time()
CleanupChunks(g, current_time) ==
    LET chunks_to_remove == {k \in DOMAIN g.chunks : Stale(current_time, g.chunks[k])}
    IN [g EXCEPT !.chunks = [k \in DOMAIN g.chunks \ chunks_to_remove |-> g.chunks[k]]]


(***************************************************************************)
(* network/__init__.py: GameNetworkClient, the inbound side.               *)
(*                                                                         *)
(* The bytes between two newlines are a frame.  A frame is described by    *)
(* what the library calls of receive_loop make of it:                      *)
(*   x         message.startswith(b'x')                                    *)
(*   inflates  zlib.decompress(message) succeeds (else zlib.error)         *)
(*   utf8      .decode() succeeds (else UnicodeDecodeError)                *)
(*   doc       what json.loads makes of the text: NotJson                  *)
(*             (JSONDecodeError), a list, or a dict                        *)
(* The stream is a sequence of frames and newlines (NL).                   *)
(***************************************************************************)
NL == [nl |-> TRUE]
Frame(x, inflates, utf8, doc) ==
    [nl |-> FALSE, x |-> x, inflates |-> inflates, utf8 |-> utf8, doc |-> doc]

NotJson == [k |-> "notjson"]
ListDoc == [k |-> "list"]
DictDoc(d) == [k |-> "dict", d |-> d]

\* the bytes of an empty frame: b''.decode() is '', which is no JSON
EmptyFrame == Frame(FALSE, FALSE, TRUE, NotJson)

\* network/__init__.py:19-36, MessageType: LOGIN = 1 ... COLLISION = 16
MT_LOGIN == 1
MT_LOGOUT == 2
MT_MOVEMENT == 3
MT_CHAT == 4
MT_WORLD_REQUEST == 5
MT_ENTITY_INTERACTION == 6
MT_PING == 9
MT_PONG == 10
MT_ERROR == 11
MT_SUCCESS == 12
MT_ENTITY_UPDATE == 13
MT_WORLD_CHUNK == 14
MT_NPC_INTERACTION == 15
MT_COLLISION == 16
NetMessageTypeValues == 1..16

\* self.handlers
HandlerTypes == {MT_WORLD_CHUNK, MT_ENTITY_UPDATE, MT_CHAT, MT_ERROR, MT_SUCCESS,
                 MT_COLLISION, MT_NPC_INTERACTION}

\* What a handler did: the exception it raised ("" when none), the records it
\* put on incoming_queue, and the session and player id it left.
Handled(put, sid, pid) == [exc |-> "", put |-> put, sid |-> sid, pid |-> pid]
Failed(e, sid, pid) == [exc |-> e, put |-> << >>, sid |-> sid, pid |-> pid]

\* GameNetworkClient.handle_world_chunk
ClientHandleWorldChunk(data, sid, pid) ==
    IF ~({"chunk_x", "chunk_z", "data"} \subseteq DOMAIN data) THEN Failed("KeyError", sid, pid)
    ELSE Handled(<<[type |-> "world_chunk", chunk_x |-> data.chunk_x,
                    chunk_z |-> data.chunk_z, data |-> data.data]>>, sid, pid)

\* GameNetworkClient.handle_entity_update
ClientHandleEntityUpdate(data, sid, pid) ==
    IF "entities" \notin DOMAIN data THEN Failed("KeyError", sid, pid)
    ELSE Handled(<<[type |-> "entity_update", entities |-> data.entities]>>, sid, pid)

\* GameNetworkClient.handle_chat
ClientHandleChat(data, sid, pid) ==
    IF ~({"sender", "message"} \subseteq DOMAIN data) THEN Failed("KeyError", sid, pid)
    ELSE Handled(<<[type |-> "chat", sender |-> data.sender, message |-> data.message,
                    channel |-> Get(data, "channel", "global")]>>, sid, pid)

\* GameNetworkClient.handle_error: logs
ClientHandleError(data, sid, pid) ==
    IF ~({"message", "code"} \subseteq DOMAIN data) THEN Failed("KeyError", sid, pid)
    ELSE Handled(<< >>, sid, pid)

\* GameNetworkClient.handle_success
ClientHandleSuccess(data, sid, pid) ==
    IF "message" \notin DOMAIN data THEN Failed("KeyError", sid, pid)
    ELSE Handled(<< >>, Get(data, "session_id", sid), Get(data, "player_id", pid))

\* GameNetworkClient.handle_collision
ClientHandleCollision(data, sid, pid) ==
    IF ~({"entity1", "entity2", "point"} \subseteq DOMAIN data) THEN Failed("KeyError", sid, pid)
    ELSE Handled(<<[type |-> "collision", entity1 |-> data.entity1,
                    entity2 |-> data.entity2, point |-> data.point]>>, sid, pid)

\* GameNetworkClient.handle_npc_interaction
ClientHandleNpcInteraction(data, sid, pid) ==
    IF ~({"npc_id", "interaction_type"} \subseteq DOMAIN data) THEN Failed("KeyError", sid, pid)
    ELSE Handled(<<[type |-> "npc_interaction", npc_id |-> data.npc_id,
                    interaction_type |-> data.interaction_type,
                    data |-> Get(data, "data", EmptyDict)]>>, sid, pid)

\* self.handlers[msg_type](data)
Dispatch(msg_type, data, sid, pid) ==
    CASE msg_type = MT_WORLD_CHUNK -> ClientHandleWorldChunk(data, sid, pid)
      [] msg_type = MT_ENTITY_UPDATE -> ClientHandleEntityUpdate(data, sid, pid)
      [] msg_type = MT_CHAT -> ClientHandleChat(data, sid, pid)
      [] msg_type = MT_ERROR -> ClientHandleError(data, sid, pid)
      [] msg_type = MT_SUCCESS -> ClientHandleSuccess(data, sid, pid)
      [] msg_type = MT_COLLISION -> ClientHandleCollision(data, sid, pid)
      [] msg_type = MT_NPC_INTERACTION -> ClientHandleNpcInteraction(data, sid, pid)

\* the except clause of process_incoming_message
ProcessIncomingCatches(e) == e = "JSONDecodeError"

\* process_incoming_message, on what json.loads makes of message_str
ProcessIncomingMessage(doc, sid, pid) ==
    LET r == IF doc.k = "notjson" THEN Failed("JSONDecodeError", sid, pid)
             ELSE IF doc.k # "dict" THEN Failed("TypeError", sid, pid)
             ELSE IF "type" \notin DOMAIN doc.d THEN Failed("KeyError", sid, pid)
             ELSE IF doc.d.type \notin NetMessageTypeValues THEN Failed("ValueError", sid, pid)
             ELSE IF doc.d.type \in HandlerTypes
                  THEN IF "data" \notin DOMAIN doc.d THEN Failed("KeyError", sid, pid)
                       ELSE Dispatch(doc.d.type, doc.d.data, sid, pid)
             ELSE Handled(<< >>, sid, pid)
    IN IF r.exc # "" /\ ProcessIncomingCatches(r.exc) THEN Handled(<< >>, sid, pid) ELSE r

\* the exception classes of this model; each derives from Exception
ExceptionClasses == {"KeyError", "ValueError", "TypeError", "JSONDecodeError",
                     "UnicodeDecodeError", "zlib.error"}

\* a narrower except clause, to show what the frame properties rest on
CatchesJsonOnly(e) == e = "JSONDecodeError"

\* "except Exception" around one frame, in receive_loop
FrameExceptCatches(e) == e \in ExceptionClasses

\* the frame the bytes of `message` are: the stream of this model puts one
\* frame before each newline; no frame at all is the empty frame
FrameOf(message) ==
    IF Len(message) = 1 THEN message[1] ELSE EmptyFrame

\* the body of receive_loop's inner while loop on one message
ReceiveFrame(message, sid, pid) ==
    LET f == FrameOf(message)
        r == IF f.x /\ ~f.inflates THEN Failed("zlib.error", sid, pid)
             ELSE IF ~f.utf8 THEN Failed("UnicodeDecodeError", sid, pid)
             ELSE ProcessIncomingMessage(f.doc, sid, pid)
    IN IF r.exc # "" /\ FrameExceptCatches(r.exc) THEN Handled(<< >>, sid, pid) ELSE r

\* buffer.split(b'\n', 1): the bytes before the first newline, and those after
RECURSIVE FirstNL(_)
FirstNL(buffer) ==
    IF buffer = << >> THEN 0
    ELSE IF Head(buffer).nl THEN 1
    ELSE LET k == FirstNL(Tail(buffer)) IN IF k = 0 THEN 0 ELSE k + 1

HasNL(buffer) == FirstNL(buffer) > 0
SplitHead(buffer) == SubSeq(buffer, 1, FirstNL(buffer) - 1)
SplitRest(buffer) == SubSeq(buffer, FirstNL(buffer) + 1, Len(buffer))


(***************************************************************************)
(* network/__init__.py: GameNetworkClient, the outbound side               *)
(***************************************************************************)
\* len(message_str) above which send_message compresses
CompressThreshold == 1024

\* send_message: the item it puts on outgoing_queue.  The item is the bytes
\* of the JSON message, compressed (z) when the text is longer than the
\* threshold; textLen is len(json.dumps(message)) and stamp is time.time(),
\* which is taken to grow from one message to the next.
OutItem(msg_type, data, textLen, sid, pid, stamp) ==
    [z |-> textLen > CompressThreshold,
     msg |-> [type |-> msg_type, data |-> data, timestamp |-> stamp,
              session_id |-> sid, player_id |-> pid]]

NoItem == [z |-> FALSE, msg |-> EmptyDict]

\* a queue that puts at the front, and one that gets from the back, to show
\* what the ordering properties rest on
PutFirst(q, x) == <<x>> \o q
LastOf(q) == q[Len(q)]

\* self.outgoing_queue.put(x) / self.incoming_queue.put(x)
QueuePut(q, x) == Append(q, x)
\* the item queue.get() returns, and the queue it leaves
QueueFront(q) == Head(q)
QueueRest(q) == Tail(q)

\* a send_message that puts the item on the queue twice, to show what the
\* one-item property rests on
SendMessageTwice(msg_type, data, textLen) ==
    LET item == OutItem(msg_type, data, textLen, session_id, player_id, Len(hOut) + 1) IN
    /\ outgoing_queue' = QueuePut(QueuePut(outgoing_queue, item), item)
    /\ packets_sent' = packets_sent + 1
    /\ hOut' = Append(hOut, item)

\* send_message(msg_type, data)
SendMessage(msg_type, data, textLen) ==
    LET item == OutItem(msg_type, data, textLen, session_id, player_id, Len(hOut) + 1) IN
    /\ outgoing_queue' = QueuePut(outgoing_queue, item)
    /\ packets_sent' = packets_sent + 1
    /\ hOut' = Append(hOut, item)

\* login(): player_name 'Player', no token
LoginData == [player_name |-> "Player", auth_token |-> "", version |-> "1.0.0"]


(***************************************************************************)
(* The codec as a state machine: a caller serializes a message, or bytes   *)
(* arrive from the wire, and deserialize is applied to them.               *)
(***************************************************************************)
\* character codes of the keys and strings of the payloads
KeyA == <<97>>
KeyB == <<98>>

\* the JSON-object payloads a caller passes
Payloads ==
    { JObj(<<>>),
      JObj(<< <<KeyA, JInt(1)>> >>),
      JObj(<< <<KeyA, JInt(10)>>, <<KeyB, JStr(<<115>>)>> >>),
      JObj(<< <<KeyB, JArr(<<JInt(0), JNull>>)>> >>),
      JObj(<< <<KeyA, JObj(<< <<KeyB, JInt(7)>> >>)>> >>) }

\* number of distinct session ids a message is built with
MaxSessionIds == 3
\* 0 (unassigned), small ids, and the largest id TLC's 32-bit
\* integers hold (a session id is a u32 on the wire)
SessionIds == (0..(MaxSessionIds - 2)) \cup {2147483647}

ValidMessages ==
    { GameMessage(t, d, sid) : t \in MessageTypeValues, d \in Payloads, sid \in SessionIds }

NoMsg == [kind |-> "nomsg"]
NoRes == [kind |-> "nores"]

\* a frame as the header layout of pack() writes it, with any type value,
\* any declared size and any payload bytes
WireFrame(typeVal, declSize, sid, payload) ==
    BigEndian(typeVal, 2) \o BigEndian(declSize, 4) \o BigEndian(sid, 4)
        \o BigEndian(0, 4) \o payload

\* payload bytes seen on the wire: JSON objects, JSON that is no object,
\* text that is no JSON, bytes that are no UTF-8
WirePayloads ==
    { Dumps(JObj(<<>>)), Dumps(JObj(<< <<KeyA, JInt(1)>> >>)),
      Dumps(JArr(<<JInt(1)>>)), Dumps(JInt(5)), Dumps(JArr(<<>>)),
      <<123, 97>>, <<255>> }

\* a type value inside and outside the enumeration
WireTypeValues == {12, 132, 0, 13, 255}

Prefixes(b) == { SubSeq(b, 1, k) : k \in 0..Len(b) }

WireBuffers ==
    UNION { Prefixes(WireFrame(t, Len(pl), 7, pl)) : t \in WireTypeValues, pl \in WirePayloads }
    \cup { WireFrame(12, Len(pl) + 3, 7, pl) : pl \in WirePayloads }
    \cup { WireFrame(12, Len(pl), 7, pl) \o <<123, 125>> : pl \in WirePayloads }

CodecSerialize ==
    /\ cPhase = "idle"
    /\ \E m \in ValidMessages :
         LET r == Serialize(m) IN
         /\ r.kind = "bytes"
         /\ cMsg' = m
         /\ cBuf' = r.v
    /\ cSrc' = "serialize"
    /\ cPhase' = "encoded"
    /\ cRes' = NoRes
    /\ UNCHANGED sessionVars

CodecReceive ==
    /\ cPhase = "idle"
    /\ \E b \in WireBuffers : cBuf' = b
    /\ cMsg' = NoMsg
    /\ cSrc' = "wire"
    /\ cPhase' = "buffer"
    /\ cRes' = NoRes
    /\ UNCHANGED sessionVars

CodecDeserialize ==
    /\ cPhase \in {"encoded", "buffer"}
    /\ cRes' = Deserialize(cBuf)
    /\ cPhase' = "decoded"
    /\ UNCHANGED <<cSrc, cMsg, cBuf>>
    /\ UNCHANGED sessionVars

CodecReset ==
    /\ cPhase = "decoded"
    /\ cPhase' = "idle"
    /\ cSrc' = "none"
    /\ cMsg' = NoMsg
    /\ cBuf' = <<>>
    /\ cRes' = NoRes
    /\ UNCHANGED sessionVars

CodecInit ==
    /\ cPhase = "idle"
    /\ cSrc = "none"
    /\ cMsg = NoMsg
    /\ cBuf = <<>>
    /\ cRes = NoRes

CodecNext == CodecSerialize \/ CodecReceive \/ CodecDeserialize \/ CodecReset

(***************************************************************************)
(* Claims about the codec, checked under SpecCodec                         *)
(***************************************************************************)
\* the fields of the header as the wire-format description lays them out:
\* u16 messageType, then u32 payloadSize
DeclaredType(buf) == FromBigEndian(SubSeq(buf, 1, 2))
DeclaredSize(buf) == FromBigEndian(SubSeq(buf, 3, 6))

\* C1: round trip: deserialize(serialize(m)) returns a message with the type,
\* the session id and the payload of m, for every valid message m.
C1_RoundTrip ==
    (cPhase = "decoded" /\ cSrc = "serialize") =>
        /\ cRes.kind = "msg"
        /\ cRes.msg_type = cMsg.msg_type
        /\ cRes.session_id = cMsg.session_id
        /\ DictEq(cRes.data, cMsg.data)

\* C2: deserialize never raises: every input gives a message or an error
\* outcome (None); fewer than 12 bytes give the error outcome, fewer bytes
\* after the 12-byte header than the declared payload size give the error
\* outcome, and a payload that is no JSON gives the error outcome.
C2_DeserializeNeverRaises ==
    cPhase = "decoded" =>
        /\ cRes.kind \in {"msg", "None"}
        /\ Len(cBuf) < 12 => cRes.kind = "None"
        /\ (Len(cBuf) >= 12 /\ Len(cBuf) - 12 < DeclaredSize(cBuf)) => cRes.kind = "None"
        /\ ( /\ Len(cBuf) >= 12
             /\ Len(cBuf) - 12 >= DeclaredSize(cBuf)
             /\ LET pl == SubSeq(cBuf, 13, 12 + DeclaredSize(cBuf)) IN
                DecodeUtf8(pl).kind = "raise" \/ Loads(pl).kind = "raise" )
           => cRes.kind = "None"

\* C3: serialize(m) is SIZE (12) header bytes followed by the payload bytes:
\* its length is 12 + len(payload), the payloadSize field is the payload's
\* length, and unpack() of the first 12 bytes gives the header pack() wrote.
C3_TwelveByteHeader ==
    cPhase = "encoded" =>
        LET payload == Dumps(cMsg.data)
            h == HeaderUnpack(SubSeq(cBuf, 1, SIZE))
        IN /\ Len(cBuf) = SIZE + Len(payload)
           /\ DeclaredSize(cBuf) = Len(payload)
           /\ h.kind = "header"
           /\ h.msg_type = cMsg.msg_type
           /\ h.size = Len(payload)
           /\ h.session_id = cMsg.session_id

\* C4: decoding a complete frame whose type value is outside the enumeration
\* gives an error result (no exception leaves deserialize), and decoding a
\* complete frame whose payload is JSON but no JSON object gives an error
\* result.  A frame is complete when the bytes pack() lays out as its header
\* and the declared number of payload bytes are all there.
C4_UnknownTypeAndNonObjectRejected ==
    ( /\ cPhase = "decoded"
      /\ cSrc = "wire"
      /\ Len(cBuf) >= CalcSize
      /\ Len(cBuf) >= CalcSize + DeclaredSize(cBuf) ) =>
        LET pl == SubSeq(cBuf, CalcSize + 1, CalcSize + DeclaredSize(cBuf))
            parsed == Loads(pl)
        IN /\ DeclaredType(cBuf) \notin MessageTypeValues => cRes.kind = "None"
           /\ ( /\ DecodeUtf8(pl).kind # "raise"
                /\ parsed.kind = "json"
                /\ parsed.v.t # "obj" ) => cRes.kind = "None"

(***************************************************************************)
(* The session as a state machine.  One caller runs connect() and later    *)
(* disconnect() (main.py: once at start, once on stop); the receive and    *)
(* the send thread run receive_loop and send_loop; the main thread sends   *)
(* intents and calls process_messages; the server and the connection are   *)
(* the environment.  Nothing reads packets_received or latency: they are   *)
(* left out.  use_udp is False.                                            *)
(***************************************************************************)
SessionInit ==
    /\ connected = FALSE
    /\ running = FALSE
    /\ sock = "none"
    /\ session_id = 0
    /\ player_id = 0
    /\ packets_sent = 0
    /\ outgoing_queue = << >>
    /\ incoming_queue = << >>
    /\ apc = "new"
    /\ rpc = "none"
    /\ rbuf = << >>
    /\ rexit = ""
    /\ spc = "none"
    /\ shold = NoItem
    /\ sexit = ""
    /\ tpc = "idle"
    /\ rdCond = "up"
    /\ wrBroken = FALSE
    /\ wire_in = << >>
    /\ wire_out = << >>
    /\ gs = NewStore
    /\ clock = 0
    /\ hFrames = << >>
    /\ hEnq = << >>
    /\ hApplied = << >>
    /\ hOut = << >>
    /\ hPopped = << >>
    /\ hDropped = << >>
    /\ hTick = [queued |-> << >>, n |-> 0, end |-> "none"]
    /\ saved_file = NoFile
    /\ hSaved = NewStore
    /\ hLoaded = "none"
    /\ hSaveResult = "none"
    /\ receive_alive = 0
    /\ send_alive = 0
    /\ sending = [t \in {"connect", "main"} |-> [at |-> "out", seen |-> 0]]
    /\ player_quests = << >>
    /\ rewards_given = << >>
    /\ quest_call = "none"
    /\ quest_result = "none"

\* ---- connect() ----
\* a connect() whose failure comes after the flags were set, to show what the
\* failure property rests on
ConnectFailsAfterFlags ==
    /\ apc = "new"
    /\ sock' = "unconnected"
    /\ running' = TRUE
    /\ connected' = FALSE
    /\ apc' = "failed"
    /\ UNCHANGED <<session_id, player_id, packets_sent, outgoing_queue,
                   incoming_queue, rpc, rbuf, rexit, spc, shold, sexit, tpc,
                   netVars, gs, clock, fileVars, flowVars, callVars, questVars, histVars, codecVars>>

\* socket.connect raises (refused, timed out): the except branch
ConnectFails ==
    /\ apc = "new"
    /\ sock' = "unconnected"
    /\ connected' = FALSE
    /\ apc' = "failed"
    /\ UNCHANGED <<running, session_id, player_id, packets_sent, outgoing_queue,
                   incoming_queue, rpc, rbuf, rexit, spc, shold, sexit, tpc,
                   netVars, gs, clock, fileVars, flowVars, callVars, questVars, histVars, codecVars>>

\* socket.connect returns: the flags are set and both threads started
ConnectStart ==
    /\ apc = "new"
    /\ sock' = "open"
    /\ running' = TRUE
    /\ connected' = TRUE
    /\ rpc' = "loop"
    /\ spc' = "loop"
    /\ apc' = "login"
    /\ UNCHANGED <<session_id, player_id, packets_sent, outgoing_queue,
                   incoming_queue, rbuf, rexit, shold, sexit, tpc,
                   netVars, gs, clock, fileVars, flowVars, callVars, questVars, histVars, codecVars>>

\* self.login(), then return True
ConnectLogin ==
    /\ apc = "login"
    /\ SendMessage(MT_LOGIN, LoginData, 100)
    /\ apc' = "up"
    /\ UNCHANGED <<connected, running, sock, session_id, player_id, incoming_queue,
                   rpc, rbuf, rexit, spc, shold, sexit, tpc, netVars, gs, clock, fileVars, flowVars, callVars, questVars,
                   hFrames, hEnq, hApplied, hPopped, hDropped, hTick, codecVars>>

\* ---- disconnect() ----
\* a disconnect() that leaves self.running alone, to show what the teardown
\* property rests on
DisconnectFlagsKeepRunning ==
    /\ apc \in {"up", "failed"}
    /\ connected' = FALSE
    /\ apc' = "closing"
    /\ UNCHANGED <<running, sock, session_id, player_id, packets_sent, outgoing_queue,
                   incoming_queue, rpc, rbuf, rexit, spc, shold, sexit, tpc,
                   netVars, gs, clock, fileVars, flowVars, callVars, questVars, histVars, codecVars>>

DisconnectFlags ==
    /\ apc \in {"up", "failed"}
    /\ running' = FALSE
    /\ connected' = FALSE
    /\ apc' = "closing"
    /\ UNCHANGED <<sock, session_id, player_id, packets_sent, outgoing_queue,
                   incoming_queue, rpc, rbuf, rexit, spc, shold, sexit, tpc,
                   netVars, gs, clock, fileVars, flowVars, callVars, questVars, histVars, codecVars>>

\* if self.socket: send_logout()
DisconnectLogout ==
    /\ apc = "closing"
    /\ IF sock = "none"
       THEN UNCHANGED <<outgoing_queue, packets_sent, hOut>>
       ELSE SendMessage(MT_LOGOUT, EmptyDict, 100)
    /\ apc' = "logout"
    /\ UNCHANGED <<connected, running, sock, session_id, player_id, incoming_queue,
                   rpc, rbuf, rexit, spc, shold, sexit, tpc, netVars, gs, clock, fileVars, flowVars, callVars, questVars,
                   hFrames, hEnq, hApplied, hPopped, hDropped, hTick, codecVars>>

\* self.socket.close(), the statement after send_logout()
DisconnectClose ==
    /\ apc = "logout"
    /\ sock' = IF sock = "none" THEN sock ELSE "closed"
    /\ apc' = "joining"
    /\ UNCHANGED <<connected, running, session_id, player_id, packets_sent,
                   outgoing_queue, incoming_queue, rpc, rbuf, rexit, spc, shold,
                   sexit, tpc, netVars, gs, clock, fileVars, flowVars, callVars, questVars, histVars, codecVars>>

\* the two join(timeout=1.0): each returns when its thread has ended or the
\* second is over
DisconnectJoin ==
    /\ apc = "joining"
    /\ apc' = "closed"
    /\ UNCHANGED <<clientVars, rpc, rbuf, rexit, spc, shold, sexit, tpc,
                   netVars, gs, clock, fileVars, flowVars, callVars, questVars, histVars, codecVars>>

\* ---- receive_loop ----
\* while self.running
RecvLoop ==
    /\ rpc = "loop"
    /\ IF running
       THEN rpc' = "recv" /\ rexit' = rexit
       ELSE rpc' = "done" /\ rexit' = "stopped"
    /\ UNCHANGED <<clientVars, apc, rbuf, spc, shold, sexit, tpc, netVars, gs, clock, fileVars, flowVars, callVars, questVars,
                   histVars, codecVars>>

\* recv times out with nothing to read: except socket.timeout: continue
RecvTimeout ==
    /\ rpc = "recv"
    /\ sock = "open" /\ rdCond = "up" /\ wire_in = << >>
    /\ rpc' = "loop"
    /\ UNCHANGED <<clientVars, apc, rbuf, rexit, spc, shold, sexit, tpc, netVars, gs,
                   clock, fileVars, flowVars, callVars, questVars, histVars, codecVars>>

\* recv returns some of the bytes that have arrived: buffer += data
RecvData ==
    /\ rpc = "recv"
    /\ sock = "open" /\ rdCond # "err" /\ wire_in # << >>
    /\ \E k \in 1..Len(wire_in) :
         /\ rbuf' = rbuf \o SubSeq(wire_in, 1, k)
         /\ wire_in' = SubSeq(wire_in, k + 1, Len(wire_in))
    /\ rpc' = "frames"
    /\ UNCHANGED <<clientVars, apc, rexit, spc, shold, sexit, tpc, rdCond, wrBroken,
                   wire_out, gs, clock, fileVars, flowVars, callVars, questVars, histVars, codecVars>>

\* recv returns b'': "Connection lost"
RecvEof ==
    /\ rpc = "recv"
    /\ sock = "open" /\ rdCond = "eof" /\ wire_in = << >>
    /\ connected' = FALSE
    /\ rpc' = "done"
    /\ rexit' = "eof"
    /\ UNCHANGED <<running, sock, session_id, player_id, packets_sent, outgoing_queue,
                   incoming_queue, apc, rbuf, spc, shold, sexit, tpc, netVars, gs,
                   clock, fileVars, flowVars, callVars, questVars, histVars, codecVars>>

\* recv raises (the connection reset, or the socket closed by disconnect):
\* except Exception
RecvError ==
    /\ rpc = "recv"
    /\ sock = "closed" \/ rdCond = "err"
    /\ connected' = FALSE
    /\ rpc' = "done"
    /\ rexit' = "error"
    /\ UNCHANGED <<running, sock, session_id, player_id, packets_sent, outgoing_queue,
                   incoming_queue, apc, rbuf, spc, shold, sexit, tpc, netVars, gs,
                   clock, fileVars, flowVars, callVars, questVars, histVars, codecVars>>

\* a receive thread that applies the records itself instead of queueing
\* them, to show what the single-writer property rests on
RecvFrameAppliesRecords ==
    /\ rpc = "frames"
    /\ HasNL(rbuf)
    /\ LET message == SplitHead(rbuf)
           r == ReceiveFrame(message, session_id, player_id)
       IN /\ rbuf' = SplitRest(rbuf)
          /\ hFrames' = Append(hFrames, FrameOf(message))
          /\ gs' = IF r.exc = "" /\ r.put # << >>
                   THEN ApplyServerUpdate(gs, r.put[1], clock).gs ELSE gs
          /\ session_id' = r.sid
          /\ player_id' = r.pid
    /\ UNCHANGED <<connected, running, sock, packets_sent, outgoing_queue,
                   incoming_queue, apc, rpc, rexit, spc, shold, sexit, tpc, netVars,
                   clock, fileVars, flowVars, callVars, questVars, hEnq, hApplied, hOut, hPopped, hDropped, hTick,
                   codecVars>>

\* one turn of "while b'\n' in buffer": split a message off and process it; an
\* exception that leaves the inner try reaches the outer "except Exception"
RecvFrame ==
    /\ rpc = "frames"
    /\ HasNL(rbuf)
    /\ LET message == SplitHead(rbuf)
           r == ReceiveFrame(message, session_id, player_id)
       IN /\ rbuf' = SplitRest(rbuf)
          /\ hFrames' = Append(hFrames, FrameOf(message))
          /\ IF r.exc = ""
             THEN /\ incoming_queue' = incoming_queue \o r.put
                  /\ hEnq' = hEnq \o r.put
                  /\ session_id' = r.sid
                  /\ player_id' = r.pid
                  /\ UNCHANGED <<connected, rpc, rexit>>
             ELSE /\ connected' = FALSE
                  /\ rpc' = "done"
                  /\ rexit' = "error"
                  /\ UNCHANGED <<incoming_queue, hEnq, session_id, player_id>>
    /\ UNCHANGED <<running, sock, packets_sent, outgoing_queue, apc, spc, shold, sexit,
                   tpc, netVars, gs, clock, fileVars, flowVars, callVars, questVars, hApplied, hOut, hPopped, hDropped, hTick,
                   codecVars>>

\* no newline left in the buffer: back to the top of the loop
RecvFramesDone ==
    /\ rpc = "frames"
    /\ ~HasNL(rbuf)
    /\ rpc' = "loop"
    /\ UNCHANGED <<clientVars, apc, rbuf, rexit, spc, shold, sexit, tpc, netVars, gs,
                   clock, fileVars, flowVars, callVars, questVars, histVars, codecVars>>

\* ---- send_loop ----
\* while self.running
SendLoop ==
    /\ spc = "loop"
    /\ IF running
       THEN spc' = "get" /\ sexit' = sexit
       ELSE spc' = "done" /\ sexit' = "stopped"
    /\ UNCHANGED <<clientVars, apc, rpc, rbuf, rexit, shold, tpc, netVars, gs, clock, fileVars, flowVars, callVars, questVars,
                   histVars, codecVars>>

\* outgoing_queue.get(timeout=0.1) raises Empty: continue
SendGetEmpty ==
    /\ spc = "get"
    /\ outgoing_queue = << >>
    /\ spc' = "loop"
    /\ UNCHANGED <<clientVars, apc, rpc, rbuf, rexit, shold, sexit, tpc, netVars, gs,
                   clock, fileVars, flowVars, callVars, questVars, histVars, codecVars>>

\* outgoing_queue.get returns a message
SendGet ==
    /\ spc = "get"
    /\ outgoing_queue # << >>
    /\ shold' = QueueFront(outgoing_queue)
    /\ outgoing_queue' = QueueRest(outgoing_queue)
    /\ hPopped' = IF connected THEN Append(hPopped, QueueFront(outgoing_queue)) ELSE hPopped
    /\ spc' = "write"
    /\ UNCHANGED <<connected, running, sock, session_id, player_id, packets_sent,
                   incoming_queue, apc, rpc, rbuf, rexit, sexit, tpc, netVars, gs,
                   clock, fileVars, flowVars, callVars, questVars, hFrames, hEnq, hApplied, hOut, hDropped, hTick, codecVars>>

\* socket.sendall(message + b'\n') returns
SendWrite ==
    /\ spc = "write"
    /\ sock = "open" /\ ~wrBroken
    /\ wire_out' = Append(wire_out, shold)
    /\ shold' = NoItem
    /\ spc' = "loop"
    /\ UNCHANGED <<clientVars, apc, rpc, rbuf, rexit, sexit, tpc, rdCond, wrBroken,
                   wire_in, gs, clock, fileVars, flowVars, callVars, questVars, histVars, codecVars>>

\* socket.sendall raises (broken connection, or the socket closed by
\* disconnect): except Exception: break
SendWriteError ==
    /\ spc = "write"
    /\ sock # "open" \/ wrBroken
    /\ hDropped' = Append(hDropped, shold)
    /\ shold' = NoItem
    /\ spc' = "done"
    /\ sexit' = "error"
    /\ UNCHANGED <<clientVars, apc, rpc, rbuf, rexit, tpc, netVars, gs, clock, fileVars, flowVars, callVars, questVars,
                   hFrames, hEnq, hApplied, hOut, hPopped, hTick, codecVars>>

\* ---- process_messages, called by the main thread ----
TickStart ==
    /\ tpc = "idle"
    /\ tpc' = "drain"
    /\ hTick' = [queued |-> incoming_queue, n |-> 0, end |-> "running"]
    /\ UNCHANGED <<clientVars, apc, rpc, rbuf, rexit, spc, shold, sexit, netVars, gs,
                   clock, fileVars, flowVars, callVars, questVars, hFrames, hEnq, hApplied, hOut, hPopped, hDropped, codecVars>>

\* one turn of "while not self.incoming_queue.empty()": the call returns when
\* the queue is empty, and ends with the exception apply_server_update raises
ProcessMessagesStep ==
    /\ tpc = "drain"
    /\ IF incoming_queue = << >>
       THEN /\ tpc' = "idle"
            /\ hTick' = [hTick EXCEPT !.end = "returned"]
            /\ UNCHANGED <<incoming_queue, gs, hApplied>>
       ELSE LET message == QueueFront(incoming_queue)
                r == ApplyServerUpdate(gs, message, clock)
            IN /\ incoming_queue' = QueueRest(incoming_queue)
               /\ hApplied' = Append(hApplied, message)
               /\ gs' = r.gs
               /\ IF r.exc = ""
                  THEN /\ tpc' = tpc
                       /\ hTick' = [hTick EXCEPT !.n = @ + 1]
                  ELSE /\ tpc' = "idle"
                       /\ hTick' = [hTick EXCEPT !.n = @ + 1, !.end = "raised"]
    /\ UNCHANGED <<connected, running, sock, session_id, player_id, packets_sent,
                   outgoing_queue, apc, rpc, rbuf, rexit, spc, shold, sexit, netVars,
                   clock, fileVars, flowVars, callVars, questVars, hFrames, hEnq, hOut, hPopped, hDropped, codecVars>>

\* ---- the main thread's intents: send_chat(message) ----
\* number of chat messages the player sends
MaxIntents == 1
\* len(json.dumps(message)) of a short and of a long chat message
ChatTextLens == {100, 2000}

\* send_message does not look at the connection: a message can be queued
\* before connect() as well as on a session that is up
SendChat ==
    /\ apc \in {"new", "up"}
    /\ Len(hOut) < MaxIntents + 1
    /\ \E n \in ChatTextLens :
         SendMessage(MT_CHAT, [message |-> n, channel |-> "global"], n)
    /\ UNCHANGED <<connected, running, sock, session_id, player_id, incoming_queue,
                   threadVars, netVars, gs, clock, fileVars, flowVars, callVars, questVars, hFrames, hEnq, hApplied, hPopped,
                   hDropped, hTick, codecVars>>

\* ---- the server and the connection ----
\* entity payloads: with an id, and without one
E1 == [id |-> 1, health |-> 50]
E2 == [id |-> 2, health |-> 80]
ENoId == [health |-> 10]

\* a frame of plain JSON text, and a frame of zlib-compressed JSON text
Plain(d) == Frame(FALSE, FALSE, TRUE, DictDoc(d))
Compressed(d) == Frame(TRUE, TRUE, TRUE, DictDoc(d))

\* frames every step of the receive path accepts; the second of the three
\* entity payloads of FEntitiesNoId has no id
FEntitiesNoId ==
    Plain([type |-> MT_ENTITY_UPDATE, data |-> [entities |-> <<E1, ENoId, E2>>]])
FCollision == Plain([type |-> MT_COLLISION,
                     data |-> [entity1 |-> 1, entity2 |-> 2, point |-> <<0, 0, 0>>]])
FNpc == Compressed([type |-> MT_NPC_INTERACTION,
                    data |-> [npc_id |-> 5, interaction_type |-> "dialogue"]])
GoodFrames == {FEntitiesNoId, FCollision, FNpc}

\* frames some step of the receive path fails on
FBadZlib == Frame(TRUE, FALSE, TRUE, NotJson)
FNotJson == Frame(FALSE, FALSE, TRUE, NotJson)
FNoType == Plain([data |-> [entities |-> <<E1>>]])
FNoData == Plain([type |-> MT_COLLISION])
FUnknownType == Plain([type |-> 99, data |-> [entities |-> <<E1>>]])
FMissingField == Plain([type |-> MT_COLLISION, data |-> [entity1 |-> 1]])
BadFrames == {FBadZlib, FNotJson, FNoType, FNoData, FUnknownType, FMissingField}

ServerFrames == GoodFrames \cup BadFrames

\* number of frames the server sends
MaxFrames == 2

RECURSIVE CountNL(_)
CountNL(buffer) ==
    IF buffer = << >> THEN 0
    ELSE (IF Head(buffer).nl THEN 1 ELSE 0) + CountNL(Tail(buffer))

\* the server writes one frame of the set and its newline
ServerSendFrom(frames) ==
    /\ sock = "open" /\ rdCond = "up"
    /\ Len(hFrames) + CountNL(rbuf) + CountNL(wire_in) < MaxFrames
    /\ \E f \in frames : wire_in' = wire_in \o <<f, NL>>
    /\ UNCHANGED <<clientVars, threadVars, rdCond, wrBroken, wire_out, gs, clock, fileVars, flowVars, callVars, questVars,
                   histVars, codecVars>>

ServerSend == ServerSendFrom(ServerFrames)

\* the server closes the connection: recv returns b'' once the bytes are read
PeerCloses ==
    /\ sock = "open" /\ rdCond = "up"
    /\ rdCond' = "eof"
    /\ UNCHANGED <<clientVars, threadVars, wrBroken, wire_in, wire_out, gs, clock, fileVars, flowVars, callVars, questVars,
                   histVars, codecVars>>

\* the connection fails for reading: recv raises
ReadBreaks ==
    /\ sock = "open" /\ rdCond = "up"
    /\ rdCond' = "err"
    /\ UNCHANGED <<clientVars, threadVars, wrBroken, wire_in, wire_out, gs, clock, fileVars, flowVars, callVars, questVars,
                   histVars, codecVars>>

\* the connection fails for writing: sendall raises
WriteBreaks ==
    /\ sock = "open" /\ ~wrBroken
    /\ wrBroken' = TRUE
    /\ UNCHANGED <<clientVars, threadVars, rdCond, wire_in, wire_out, gs, clock, fileVars, flowVars, callVars, questVars,
                   histVars, codecVars>>

\* ---- specifications ----
\* disconnect() once it has been called
Disconnecting == DisconnectLogout \/ DisconnectClose \/ DisconnectJoin
Caller == ConnectFails \/ ConnectStart \/ ConnectLogin \/ DisconnectFlags
            \/ Disconnecting
ReceiveThread == RecvLoop \/ RecvTimeout \/ RecvData \/ RecvEof \/ RecvError
                   \/ RecvFrame \/ RecvFramesDone
\* receive_loop on a connection the server sends nothing on
QuietReceiveThread == RecvLoop \/ RecvTimeout \/ RecvEof \/ RecvError
SendThread == SendLoop \/ SendGetEmpty \/ SendGet \/ SendWrite \/ SendWriteError
ProcessMessages == TickStart \/ ProcessMessagesStep

\* the inbound side: the server's frames, the receive thread, the per-tick
\* drain into the store
InboundNext == Caller \/ ReceiveThread \/ ProcessMessages
                 \/ ServerSend \/ PeerCloses
\* the outbound side: the player's messages, the send thread, and the two
\* ways the connection fails
OutboundNext == Caller \/ SendChat \/ SendThread \/ QuietReceiveThread
                  \/ PeerCloses \/ ReadBreaks \/ WriteBreaks

Init == CodecInit /\ SessionInit

SpecCodec == Init /\ [][CodecNext]_vars
SpecInbound == Init /\ [][InboundNext]_vars
SpecOutbound == Init /\ [][OutboundNext]_vars
\* the two threads are scheduled, and a disconnect() that was called runs on;
\* the caller is free never to call it, the player and the server are free to
\* do nothing
FairSpecOutbound ==
    /\ SpecOutbound
    /\ WF_vars(QuietReceiveThread) /\ WF_vars(SendThread) /\ WF_vars(Disconnecting)


(***************************************************************************)
(* Claims about the inbound side, checked under SpecInbound                *)
(***************************************************************************)
\* the records the frames of a sequence put on incoming_queue, in order
RECURSIVE RecordsOf(_)
RecordsOf(frames) ==
    IF frames = << >> THEN << >>
    ELSE ReceiveFrame(<<Head(frames)>>, 0, 0).put \o RecordsOf(Tail(frames))

\* C5: inbound records are applied in the order their frames arrived: the
\* records passed to apply_server_update so far, followed by the records
\* still queued, are exactly the records enqueued, in enqueue order, and
\* those are the records of the frames in the order the frames were split
\* off the stream; none is reordered, merged or duplicated.
C5_InboundFifo ==
    /\ hEnq = hApplied \o incoming_queue
    /\ hEnq = RecordsOf(hFrames)

\* a collision record and then an npc-interaction record have been applied
C5_Witness ==
    /\ Len(hApplied) >= 2
    /\ hApplied[1].type = "collision"
    /\ hApplied[2].type = "npc_interaction"
    /\ hFrames = <<FCollision, FNpc>>

\* C9: an action that splits a bad frame off the buffer (failed
\* decompression, no JSON, no 'type', no 'data', unknown type value, handler
\* failing on a missing field) drops it: connected and running keep their
\* values, nothing is queued, and the receive thread stays in its frame loop
\* with the rest of the buffer.
C9_BadFrameDropped ==
    [][ ( /\ Len(hFrames') = Len(hFrames) + 1
          /\ hFrames'[Len(hFrames')] \in BadFrames )
        => ( /\ connected' = connected
             /\ running' = running
             /\ rpc' = "frames"
             /\ rexit' = rexit
             /\ incoming_queue' = incoming_queue
             /\ rbuf' = SplitRest(rbuf) ) ]_vars

\* a bad frame was dropped, the frame after it gave its record, and the
\* session is still connected with the receive thread alive
C9_Witness ==
    /\ Len(hFrames) = 2
    /\ hFrames[1] \in BadFrames
    /\ hFrames[2] = FCollision
    /\ Len(hEnq) = 1
    /\ connected
    /\ rpc \notin {"none", "done"}

\* the entity payloads with an id of the entity_update records applied so far
RECURSIVE WellFormedIds(_)
WellFormedIds(records) ==
    IF records = << >> THEN {}
    ELSE LET r == Head(records)
             ids == IF r.type = "entity_update"
                    THEN { r.entities[j].id :
                             j \in { i \in 1..Len(r.entities) : "id" \in DOMAIN r.entities[i] } }
                    ELSE {}
         IN ids \cup WellFormedIds(Tail(records))

\* C10: a malformed record does not abort the batch: no call of
\* process_messages ends with an exception, a call that has ended has applied
\* every record that was queued when it began, and every entity payload with
\* an id of every applied record is in the store.
C10_MalformedRecordDoesNotAbortTick ==
    /\ hTick.end # "raised"
    /\ hTick.end = "returned" => hTick.n >= Len(hTick.queued)
    /\ WellFormedIds(hApplied) \subseteq (DOMAIN gs.entities \cup {gs.player.player_id})

(***************************************************************************)
(* Claims about the outbound side and the two transport errors, checked    *)
(* under SpecOutbound and FairSpecOutbound                                 *)
(***************************************************************************)
\* the message send_loop holds between get() and sendall()
Held == IF spc = "write" THEN <<shold>> ELSE << >>

\* C6, as stated: every message taken off the outbound queue while the
\* session is connected is written to the socket (or is about to be), and the
\* messages written are in enqueue order.
C6_EveryPoppedWritten ==
    /\ \A i \in 1..Len(hPopped) :
         \/ hPopped[i] \in {Held[k] : k \in 1..Len(Held)}
         \/ \E j \in 1..Len(wire_out) : wire_out[j] = hPopped[i]
    /\ \A j \in 1..Len(wire_out) : wire_out[j] = hOut[j]

\* C6, amended: the messages enqueued are, in enqueue order, the messages
\* written to the socket, then the one message whose socket write raised (if
\* any), then the message the send thread holds, then the messages still
\* queued; at most one write raises, and the send thread has ended with it.
C6_WrittenInOrderUnlessWriteRaises ==
    /\ hOut = wire_out \o hDropped \o Held \o outgoing_queue
    /\ Len(hDropped) <= 1
    /\ hDropped # << >> => (spc = "done" /\ sexit = "error")

\* two messages were written in order, and the write of a third raised
C6_Witness ==
    /\ Len(wire_out) = 2
    /\ Len(hDropped) = 1
    /\ hOut = wire_out \o hDropped

\* C7: after recv returned no data or raised, the session comes to have
\* connected False and both threads ended.
C7_ReceiveErrorStopsBothFlows ==
    (rexit \in {"eof", "error"}) ~> (connected = FALSE /\ rpc = "done" /\ spc = "done")

\* C8: there is no state in which connected is True and the send thread has
\* ended because a socket write raised.
C8_NoConnectedAfterWriteError ==
    ~(connected /\ sexit = "error")


(***************************************************************************)
(* Claims about connect() and disconnect(), checked under SpecOutbound and *)
(* FairSpecOutbound                                                        *)
(***************************************************************************)
\* the messages of a sequence that are of one type
HasType(items, msg_type) == \E i \in 1..Len(items) : items[i].msg.type = msg_type

\* C11: the login message is the first frame written to the socket, whatever
\* was queued before the connection, and it is enqueued before the send and
\* the receive thread start.
C11_LoginFirst ==
    /\ wire_out # << >> => wire_out[1].msg.type = MT_LOGIN
    /\ (rpc # "none" \/ spc # "none") => HasType(hOut, MT_LOGIN)

\* C12: when disconnect() has closed the socket of a session that was
\* connected and whose connection was healthy (no read or write failure), the
\* logout message has been written to the socket.
C12_LogoutWrittenBeforeClose ==
    (sock = "closed" /\ spc # "none" /\ rdCond = "up" /\ ~wrBroken)
        => HasType(wire_out, MT_LOGOUT)

\* C13: once disconnect() is called on a session that was connected, it
\* returns and both threads end, with connected and running False; and
\* whenever disconnect() has returned, connected and running are False.
C13_DisconnectStopsBothFlows ==
    /\ (apc = "closing" /\ spc # "none")
          ~> (apc = "closed" /\ rpc = "done" /\ spc = "done" /\ ~connected /\ ~running)
    /\ [](apc = "closed" => (~connected /\ ~running))

\* disconnect() has returned on a session that was connected, and both
\* threads have ended; the send thread found the running flag False
C13_Witness ==
    /\ apc = "closed"
    /\ rpc = "done" /\ rexit \in {"stopped", "error"}
    /\ spc = "done" /\ sexit = "stopped"

\* C14: after a failed socket-level connect, connected and running are
\* False, neither thread was started and no login message was enqueued.
C14_FailedConnectLeavesDisconnected ==
    apc = "failed" =>
        /\ ~connected
        /\ ~running
        /\ rpc = "none" /\ spc = "none"
        /\ ~HasType(hOut, MT_LOGIN)
        /\ ~HasType(outgoing_queue, MT_LOGIN)

\* connect() has failed
C14_Witness ==
    /\ apc = "failed"
    /\ sock = "unconnected"
    /\ wire_out = << >>


(***************************************************************************)
(* The handshake: the server answers the login with a SUCCESS message that *)
(* carries the session and the player id, and sends records about the      *)
(* entity that has the player's id.                                        *)
(***************************************************************************)
\* a SUCCESS message assigning session_id s and player_id p
FLoginOk(s, p) ==
    Plain([type |-> MT_SUCCESS,
           data |-> [message |-> "ok", session_id |-> s, player_id |-> p]])

\* the entity payload of the player the first login response names
EPlayer == [id |-> 42, health |-> 90]

FEntityOfPlayer ==
    Plain([type |-> MT_ENTITY_UPDATE, data |-> [entities |-> <<EPlayer>>]])
FChunkOfPlayer ==
    Plain([type |-> MT_WORLD_CHUNK,
           data |-> [chunk_x |-> 0, chunk_z |-> 0,
                     data |-> [entities |-> <<EPlayer>>]]])

HandshakeFrames == {FLoginOk(7, 42), FLoginOk(8, 43), FEntityOfPlayer, FChunkOfPlayer}

ServerHandshake == ServerSendFrom(HandshakeFrames)

\* the send thread is left unscheduled here: send_message fixes what a message
\* carries when it builds it
HandshakeNext == Caller \/ ReceiveThread \/ ProcessMessages \/ SendChat
                   \/ ServerHandshake \/ PeerCloses

SpecHandshake == Init /\ [][HandshakeNext]_vars

\* the frames of a sequence that assign a session id
IsLoginOk(f) ==
    /\ f.doc.k = "dict"
    /\ {"type", "data"} \subseteq DOMAIN f.doc.d
    /\ f.doc.d.type = MT_SUCCESS
    /\ {"message", "session_id", "player_id"} \subseteq DOMAIN f.doc.d.data

\* the data of the first login response among the frames ("none" when no
\* frame is one)
RECURSIVE FirstLoginOk(_)
FirstLoginOk(frames) ==
    IF frames = << >> THEN [session_id |-> 0, player_id |-> 0]
    ELSE IF IsLoginOk(Head(frames)) THEN Head(frames).doc.d.data
    ELSE FirstLoginOk(Tail(frames))

\* C15: a step that processes a login response with session_id s and
\* player_id p leaves the two fields equal to s and p, and every message
\* send_message builds after a login response was received carries the
\* session_id of that response.
C15_AssignedIdsCarried ==
    [][ /\ ( /\ Len(hFrames') = Len(hFrames) + 1
             /\ IsLoginOk(hFrames'[Len(hFrames')]) )
           => ( /\ session_id' = hFrames'[Len(hFrames')].doc.d.data.session_id
                /\ player_id' = hFrames'[Len(hFrames')].doc.d.data.player_id )
        /\ ( /\ Len(hOut') = Len(hOut) + 1
             /\ FirstLoginOk(hFrames).session_id # 0 )
           => hOut'[Len(hOut')].msg.session_id = FirstLoginOk(hFrames).session_id
      ]_vars

\* C16: the identifiers are assigned once per connection: once non-zero,
\* no step changes them except to reset them, and when disconnect() has
\* returned they are 0 again.
C16_IdsAssignedOnce ==
    [][ /\ session_id # 0 => session_id' \in {session_id, 0}
        /\ player_id # 0 => player_id' \in {player_id, 0}
        /\ apc' = "closed" => (session_id' = 0 /\ player_id' = 0)
      ]_vars

\* C17: once the server has assigned the player id, that id is no key of the
\* entity map.
C17_PlayerNotInEntityMap ==
    player_id # 0 => player_id \notin DOMAIN gs.entities


(***************************************************************************)
(* The state store on its own: records are applied to it one after the     *)
(* other, and between them update() moves the player by the local input.   *)
(* Positions are in thousandths of a unit, times in thousandths of a       *)
(* second.                                                                 *)
(***************************************************************************)
\* update_player_movement(dt): the speed is 5 units a second, doubled when
\* running; gravity takes 9.8 * dt off a positive height; the height is
\* clamped to the ground
UpdatePlayerMovement(g, input, dt) ==
    LET d == (IF input.run THEN 10 ELSE 5) * dt
        move_vector ==
            << (IF input.right THEN d ELSE 0) - (IF input.left THEN d ELSE 0),
               IF input.jump THEN d ELSE 0,
               (IF input.backward THEN d ELSE 0) - (IF input.forward THEN d ELSE 0) >>
        moved == [i \in 1..3 |-> g.player.position[i] + move_vector[i]]
        fallen == IF moved[2] > 0 THEN moved[2] - ((98 * dt) \div 10) ELSE moved[2]
        height == IF fallen < 0 THEN 0 ELSE fallen
    IN [g EXCEPT !.player.position = <<moved[1], height, moved[3]>>,
                 !.player.velocity = move_vector]

NoInput == [forward |-> FALSE, backward |-> FALSE, left |-> FALSE, right |-> FALSE,
            jump |-> FALSE, run |-> FALSE]
\* self.input_state as the key handlers set it
InputStates == { [NoInput EXCEPT !.forward = TRUE],
                 [NoInput EXCEPT !.right = TRUE, !.jump = TRUE, !.run = TRUE] }

\* the player is moved while every coordinate is within MaxDrift units of
\* the origin
MaxDrift == 1
\* number of records applied
MaxApplies == 3

\* the entity payloads of the records: entity 5 reported at the origin and at
\* [10, 0, 10], and the entity with the player's id (PlayerState.player_id)
E5AtOrigin == [id |-> 5, position |-> <<0, 0, 0>>]
E5AtTen == [id |-> 5, position |-> <<10000, 0, 10000>>]
EOwn == [id |-> 0, position |-> <<3000, 0, 4000>>, health |-> 70]

StoreRecords ==
    { [type |-> "entity_update", entities |-> <<E5AtOrigin>>],
      [type |-> "entity_update", entities |-> <<E5AtTen>>],
      [type |-> "entity_update", entities |-> <<EOwn>>],
      [type |-> "world_chunk", chunk_x |-> 1, chunk_z |-> 2,
       data |-> [entities |-> <<EOwn, E5AtTen>>]],
      [type |-> "player_update", position |-> <<1000, 0, 2000>>],
      [type |-> "player_update", health |-> 55] }

\* apply_server_update(record), called on the store
StoreApply ==
    /\ Len(hApplied) < MaxApplies
    /\ \E record \in StoreRecords :
         /\ gs' = ApplyServerUpdate(gs, record, clock).gs
         /\ hApplied' = Append(hApplied, record)
    /\ UNCHANGED <<clientVars, threadVars, netVars, clock, fileVars, flowVars, callVars, questVars, hFrames, hEnq, hOut,
                   hPopped, hDropped, hTick, codecVars>>

\* update(0.1): update_player_movement
PredictMovement ==
    /\ \A i \in 1..3 : gs.player.position[i] \in (0 - MaxDrift * 1000)..(MaxDrift * 1000)
    /\ \E input \in InputStates : gs' = UpdatePlayerMovement(gs, input, 100)
    /\ UNCHANGED <<clientVars, threadVars, netVars, clock, fileVars, flowVars, callVars, questVars, histVars, codecVars>>

StoreNext == StoreApply \/ PredictMovement

SpecStore == Init /\ [][StoreNext]_vars


(***************************************************************************)
(* Claims about the store, checked under SpecStore                         *)
(***************************************************************************)
\* a step that applied a record, and the record
Applied == Len(hApplied') = Len(hApplied) + 1
LastApplied == hApplied'[Len(hApplied')]

\* the entity payloads of a world_chunk or an entity_update record
PayloadsOf(record) ==
    IF record.type = "entity_update" THEN Get(record, "entities", EmptyList)
    ELSE IF record.type = "world_chunk"
         THEN Get(Get(record, "data", EmptyDict), "entities", EmptyList)
    ELSE EmptyList

\* C18: when a world_chunk or an entity_update record is applied, a payload
\* with the player's id overwrites the player's position with the reported
\* one and leaves the entity map without that id as it was; a payload with
\* another id leaves an EntityState under that id: created at the reported
\* position if the id was unseen, moved by the interpolation if it was known.
C18_PlayerPayloadOverwritesPlayer ==
    [][ Applied =>
          \A k \in 1..Len(PayloadsOf(LastApplied)) :
             LET e == PayloadsOf(LastApplied)[k] IN
             IF e.id = gs.player.player_id
             THEN /\ gs'.player.position = e.position
                  /\ e.id \notin DOMAIN gs'.entities
             ELSE /\ e.id \in DOMAIN gs'.entities
                  /\ gs'.entities[e.id].position =
                        IF e.id \in DOMAIN gs.entities
                        THEN [i \in 1..3 |->
                                Interpolate(gs.entities[e.id].position[i], e.position[i])]
                        ELSE e.position
      ]_vars

\* the fields of PlayerState a player_update record can carry
CarriedFields == {"health", "max_health", "position", "rotation"}

\* C19: when a player_update record is applied, every field it carries has
\* exactly the reported value afterwards (the position whatever it was
\* before), every other field of the player is as it was, and so are the
\* entities.
C19_PlayerUpdateSetsPosition ==
    [][ (Applied /\ LastApplied.type = "player_update") =>
          /\ \A f \in DOMAIN gs.player :
                gs'.player[f] = IF f \in CarriedFields \cap DOMAIN LastApplied
                                THEN LastApplied[f]
                                ELSE gs.player[f]
          /\ gs'.entities = gs.entities
      ]_vars

\* the player was moved by local input to a position other than the reported
\* one, and the player_update record then set the reported position
C19_Witness ==
    /\ hApplied = <<[type |-> "player_update", position |-> <<1000, 0, 2000>>]>>
    /\ gs.player.velocity # <<0, 0, 0>>
    /\ gs.player.position = <<1000, 0, 2000>>

\* C20: an entity_update record that reports position p1 for a known entity
\* at p0 moves each coordinate to p0 + 0.2 * (p1 - p0), that is, by a fifth
\* of the difference; an entity created at [0, 0, 0] that is reported at
\* [10, 0, 10] sits at [2, 0, 2] after one such record and at [3.6, 0, 3.6]
\* after two (in thousandths: 2000 and 3600).
C20_InterpolationLaw ==
    /\ [][ (Applied /\ LastApplied.type = "entity_update") =>
             \A k \in 1..Len(LastApplied.entities) :
                LET e == LastApplied.entities[k] IN
                (e.id # gs.player.player_id /\ e.id \in DOMAIN gs.entities) =>
                   \A i \in 1..3 :
                      5 * (gs'.entities[e.id].position[i] - gs.entities[e.id].position[i])
                        = e.position[i] - gs.entities[e.id].position[i]
         ]_vars
    /\ [](LET atOrigin == [type |-> "entity_update", entities |-> <<E5AtOrigin>>]
              atTen == [type |-> "entity_update", entities |-> <<E5AtTen>>]
          IN /\ hApplied = <<atOrigin, atTen>>
                   => gs.entities[5].position = <<2000, 0, 2000>>
             /\ hApplied = <<atOrigin, atTen, atTen>>
                   => gs.entities[5].position = <<3600, 0, 3600>>)

\* entity 5, created at the origin, was reported at [10, 0, 10] twice
C20_Witness ==
    /\ hApplied = << [type |-> "entity_update", entities |-> <<E5AtOrigin>>],
                     [type |-> "entity_update", entities |-> <<E5AtTen>>],
                     [type |-> "entity_update", entities |-> <<E5AtTen>>] >>
    /\ gs.entities[5].position = <<3600, 0, 3600>>


(***************************************************************************)
(* Repeated reports of one position: entity 5 is created where its first   *)
(* record puts it, and every later record moves it by the interpolation.   *)
(***************************************************************************)
\* number of records applied to the entity
MaxRepeats == 4

\* entity 5 reported three units short of [10000, 0, 10000] on one axis and
\* three units beyond it on another
E5Near == [id |-> 5, position |-> <<9997, 0, 10003>>]

ConvergeRecords ==
    { [type |-> "entity_update", entities |-> <<E5AtOrigin>>],
      [type |-> "entity_update", entities |-> <<E5AtTen>>],
      [type |-> "entity_update", entities |-> <<E5Near>>] }

\* apply_server_update(record) with an entity_update record for entity 5
ConvergeApply ==
    /\ Len(hApplied) < MaxRepeats
    /\ \E record \in ConvergeRecords :
         /\ gs' = ApplyServerUpdate(gs, record, clock).gs
         /\ hApplied' = Append(hApplied, record)
    /\ UNCHANGED <<clientVars, threadVars, netVars, clock, fileVars, flowVars, callVars, questVars, hFrames, hEnq, hOut,
                   hPopped, hDropped, hTick, codecVars>>

SpecConverge == Init /\ [][ConvergeApply]_vars

Abs(n) == IF n < 0 THEN 0 - n ELSE n
\* c lies between a and b, the ends included
Between(c, a, b) == (a <= c /\ c <= b) \/ (b <= c /\ c <= a)

\* the first record created the entity and every later one is the record r
RepeatsOf(r) ==
    /\ Len(hApplied) >= 2
    /\ \A k \in 2..Len(hApplied) : hApplied[k] = r

MaxWorldApplies == 3
\* the latest time.time() looked at
MaxClock == 61

\* chunk (1, 2) brings entity 5, chunk (1, 3) brings nothing; entity 5 is also
\* reported by entity_update records; a chat line
RChunk12 == [type |-> "world_chunk", chunk_x |-> 1, chunk_z |-> 2,
             data |-> [entities |-> <<E5AtTen>>]]
RChunk13 == [type |-> "world_chunk", chunk_x |-> 1, chunk_z |-> 3,
             data |-> [entities |-> << >>]]
REntity5AtTen == [type |-> "entity_update", entities |-> <<E5AtTen>>]
REntity5AtOrigin == [type |-> "entity_update", entities |-> <<E5AtOrigin>>]
RChat == [type |-> "chat", sender |-> "ann", message |-> "hello", channel |-> "global"]
WorldRecords == {RChunk12, RChunk13, REntity5AtTen, REntity5AtOrigin, RChat}

\* apply_server_update(record) at the current time
WorldApply ==
    /\ Len(hApplied) < MaxWorldApplies
    /\ \E record \in WorldRecords :
         /\ gs' = ApplyServerUpdate(gs, record, clock).gs
         /\ hApplied' = Append(hApplied, record)
    /\ UNCHANGED <<clientVars, threadVars, netVars, clock, fileVars, flowVars, callVars, questVars, hFrames, hEnq,
                   hOut, hPopped, hDropped, hTick, codecVars>>

\* half a minute passes, or a second more
TimePasses ==
    /\ \E d \in {30, 31} :
         /\ clock + d <= MaxClock
         /\ clock' = clock + d
    /\ UNCHANGED <<clientVars, threadVars, netVars, gs, fileVars, flowVars, callVars, questVars, histVars, codecVars>>

\* cleanup_chunks()
Cleanup ==
    /\ gs' = CleanupChunks(gs, clock)
    /\ UNCHANGED <<clientVars, threadVars, netVars, clock, fileVars, flowVars, callVars, questVars, histVars, codecVars>>

WorldNext == WorldApply \/ TimePasses \/ Cleanup

SpecWorld == Init /\ [][WorldNext]_vars


(***************************************************************************)
(* Claims about the store over time, checked under SpecWorld               *)
(***************************************************************************)
\* the keys of the entity map under which an entity with this identifier sits
EntriesFor(id) == {k \in DOMAIN gs.entities : gs.entities[k].entity_id = id}

\* the payload is one that creates or updates an entity: every payload of a
\* world_chunk record, and those of an entity_update record that do not have
\* the player's id
MakesEntity(record, e) ==
    record.type = "world_chunk" \/ e.id # gs.player.player_id

\* C22: the entity map never holds two entities with the same identifier,
\* and holds exactly one for every identifier a world_chunk or entity_update
\* record has brought as an entity, however often it was brought; the chunk
\* map never holds two chunks with the same (chunk_x, chunk_z).
C22_OneEntryPerIdentifier ==
    /\ \A k \in DOMAIN gs.entities : EntriesFor(gs.entities[k].entity_id) = {k}
    /\ \A n \in 1..Len(hApplied) :
          \A j \in 1..Len(PayloadsOf(hApplied[n])) :
             LET e == PayloadsOf(hApplied[n])[j] IN
             MakesEntity(hApplied[n], e) => Cardinality(EntriesFor(e.id)) = 1
    /\ \A k1, k2 \in DOMAIN gs.chunks :
          (gs.chunks[k1].chunk_x = gs.chunks[k2].chunk_x
             /\ gs.chunks[k1].chunk_z = gs.chunks[k2].chunk_z) => k1 = k2

\* entity 5 was brought as a new entity by a world_chunk record and again by
\* the same chunk and by an entity_update record: one entry
C22_Witness ==
    /\ hApplied = <<RChunk12, RChunk12, REntity5AtTen>>
    /\ DOMAIN gs.entities = {5}
    /\ DOMAIN gs.chunks = {ChunkKey(1, 2)}


\* the two stores hold the same player, entities, chat log and chunk keys
\* (a chunk's time of last access aside)
SameRecordsHeld(a, b) ==
    /\ a.player = b.player
    /\ a.entities = b.entities
    /\ a.chat_messages = b.chat_messages
    /\ DOMAIN a.chunks = DOMAIN b.chunks

\* C23: applying a record that was applied just before (a replay) leaves the
\* store as the first application left it, whichever of the apply operations
\* the record goes to.
C23_ReplayLeavesStore ==
    [][ (Applied /\ hApplied # << >> /\ LastApplied = hApplied[Len(hApplied)])
           => SameRecordsHeld(gs', gs)
      ]_vars


\* C24: an eviction pass at time now removes exactly the chunks with
\* now - last_accessed > 60 and leaves every other chunk as it was; applying
\* a world_chunk record sets the last_accessed of the chunk of its key to the
\* time of the apply.
C24_EvictsOlderThanTimeout ==
    [][ /\ Cleanup =>
             /\ DOMAIN gs'.chunks =
                   {k \in DOMAIN gs.chunks : clock - gs.chunks[k].last_accessed <= 60}
             /\ \A k \in DOMAIN gs'.chunks : gs'.chunks[k] = gs.chunks[k]
        /\ (Applied /\ LastApplied.type = "world_chunk") =>
             LET chunk_key == ChunkKey(LastApplied.chunk_x, LastApplied.chunk_z)
             IN /\ chunk_key \in DOMAIN gs'.chunks
                /\ gs'.chunks[chunk_key].last_accessed = clock
      ]_vars

\* chunks (1, 2) and (1, 3) arrived at time 0 and (1, 3) again at time 31; the
\* pass at time 61 removed (1, 2) and left (1, 3)
C24_Witness ==
    /\ hApplied = <<RChunk12, RChunk13, RChunk13>>
    /\ clock = 61
    /\ DOMAIN gs.chunks = {ChunkKey(1, 3)}
    /\ gs.chunks[ChunkKey(1, 3)].last_accessed = 31

\* C25: cleanup_chunks changes the chunk map only: the entity map (with the
\* entities that came in the payload of an evicted chunk), the player, the
\* chat log and the game clock are as they were.
C25_EvictionLeavesEntities ==
    [][ Cleanup => /\ gs'.entities = gs.entities
                   /\ gs'.player = gs.player
                   /\ gs'.chat_messages = gs.chat_messages
                   /\ gs'.game_time = gs.game_time
                   /\ gs'.time_of_day = gs.time_of_day
      ]_vars

\* chunk (1, 2) brought entity 5 and was evicted; entity 5 is still there
C25_Witness ==
    /\ hApplied = <<RChunk12, RChat>>
    /\ gs.chunks = EmptyDict
    /\ DOMAIN gs.entities = {5}
    /\ Len(gs.chat_messages) = 1


(***************************************************************************)
(* The chat log: the server's chat lines arrive one after the other; the   *)
(* n-th line has the text n.                                               *)
(***************************************************************************)
\* number of chat records applied
MaxChats == 1001

\* apply_server_update(record) with the next chat record
ChatArrives ==
    /\ Len(hApplied) < MaxChats
    /\ LET record == [type |-> "chat", sender |-> "ann",
                      message |-> Len(hApplied) + 1, channel |-> "global"]
       IN /\ gs' = ApplyServerUpdate(gs, record, clock).gs
          /\ hApplied' = Append(hApplied, record)
    /\ UNCHANGED <<clientVars, threadVars, netVars, clock, fileVars, flowVars, callVars, questVars, hFrames, hEnq,
                   hOut, hPopped, hDropped, hTick, codecVars>>

SpecChat == Init /\ [][ChatArrives]_vars

\* C26: after n chat records the chat log holds the last min(n, 1000) of
\* them in arrival order, so never more than 1000; after 1001 it holds 1000
\* and the first line is the second record.
C26_ChatKeepsLastThousand ==
    LET n == Len(hApplied)
        m == IF n < 1000 THEN n ELSE 1000
    IN /\ Len(gs.chat_messages) = m
       /\ \A i \in 1..m :
             /\ gs.chat_messages[i].message = hApplied[n - m + i].message
             /\ gs.chat_messages[i].sender = hApplied[n - m + i].sender
       /\ n = 1001 => /\ Len(gs.chat_messages) = 1000
                      /\ gs.chat_messages[1].message = 2
                      /\ gs.chat_messages[1000].message = 1001

\* 1001 chat records were applied: the log holds the 2nd to the 1001st
C26_Witness ==
    /\ Len(hApplied) = 1001
    /\ Len(gs.chat_messages) = 1000
    /\ gs.chat_messages[1].message = 2
    /\ gs.chat_messages[1000].message = 1001


(***************************************************************************)
(* main.py, OgreKivyGameClient.update: on every tick of the main thread,   *)
(* if the client is connected, process_messages() and then                 *)
(* game_state.update(dt).  The two threads of the session run beside it.   *)
(***************************************************************************)
\* update(dt), with current_time = time.time(): the clocks, the player's
\* movement, the eviction pass (update_entities changes nothing; update_rate
\* is not read by anything, and the two readings of time.time() it divides
\* by are a sixtieth of a second apart)
UpdateStore(g, input, dt, current_time) ==
    LET timed == [g EXCEPT !.game_time = @ + dt,
                           !.time_of_day = (@ + dt) % 86400000]
    IN CleanupChunks(UpdatePlayerMovement(timed, input, dt), current_time)

\* number of update() calls
MaxUpdates == 1

\* game_state.update(0.1) on the main thread, after process_messages(), with
\* the forward key held
GameUpdate ==
    /\ tpc = "idle"
    /\ connected
    /\ gs.game_time < MaxUpdates * 100
    /\ gs' = UpdateStore(gs, [NoInput EXCEPT !.forward = TRUE], 100, clock)
    /\ UNCHANGED <<clientVars, threadVars, netVars, clock, fileVars, flowVars, callVars, questVars, histVars, codecVars>>

\* the server's frames: a chat line, and an entity batch
FChat == Plain([type |-> MT_CHAT, data |-> [sender |-> "ann", message |-> "hello"]])
TickFrames == {FChat, FEntitiesNoId}
ServerSendsTick == ServerSendFrom(TickFrames)

\* connect(); the session is not taken down here
Connecting == ConnectFails \/ ConnectStart \/ ConnectLogin

TickNext == Connecting \/ ReceiveThread \/ SendThread \/ ProcessMessages \/ GameUpdate
              \/ ServerSendsTick \/ PeerCloses \/ ReadBreaks \/ WriteBreaks

SpecTick == Init /\ [][TickNext]_vars

\* C27: a step of the receive thread or of the send thread leaves the store
\* as it is; the store changes only in a step of the main thread, inside
\* process_messages (where the record applied is the one at the head of the
\* inbound queue) or inside update, and update runs only while the main
\* thread is not inside process_messages.
C27_OnlyMainThreadWritesStore ==
    [][ /\ (ReceiveThread \/ SendThread \/ Connecting) => gs' = gs
        /\ gs' # gs => (ProcessMessagesStep \/ GameUpdate)
        /\ hApplied' # hApplied =>
              /\ tpc = "drain"
              /\ incoming_queue # << >>
              /\ hApplied' = Append(hApplied, QueueFront(incoming_queue))
              /\ gs' = ApplyServerUpdate(gs, QueueFront(incoming_queue), clock).gs
        /\ GameUpdate => tpc = "idle" /\ tpc' = "idle"
      ]_vars

\* the receive thread queued a chat record and an entity batch, the main
\* thread applied both in process_messages and then ran update
C27_Witness ==
    /\ Len(hApplied) = 2
    /\ Len(gs.chat_messages) = 1
    /\ 1 \in DOMAIN gs.entities
    /\ gs.game_time = 100
    /\ rpc # "none"


(***************************************************************************)
(* The client actions of GameNetworkClient: each builds the data of one    *)
(* message and calls send_message.  They are called by the GUI, and        *)
(* nothing stops a call before connect() or after disconnect().            *)
(***************************************************************************)
ClientActions == {"login", "send_logout", "send_movement", "send_chat",
                  "request_world_chunk", "send_entity_interaction", "ping"}

\* the message type and the data the action hands to send_message
ActionMessage(action) ==
    CASE action = "login" -> [type |-> MT_LOGIN, data |-> LoginData]
      [] action = "send_logout" -> [type |-> MT_LOGOUT, data |-> EmptyDict]
      [] action = "send_movement" ->
            [type |-> MT_MOVEMENT,
             data |-> [position |-> gs.player.position, rotation |-> gs.player.rotation,
                       velocity |-> gs.player.velocity, timestamp |-> clock]]
      [] action = "send_chat" ->
            [type |-> MT_CHAT, data |-> [message |-> "hello", channel |-> "global"]]
      [] action = "request_world_chunk" ->
            [type |-> MT_WORLD_REQUEST, data |-> [chunk_x |-> 1, chunk_z |-> 2]]
      [] action = "send_entity_interaction" ->
            [type |-> MT_ENTITY_INTERACTION,
             data |-> [entity_id |-> 5, interaction_type |-> "dialogue",
                       data |-> EmptyDict]]
      [] action = "ping" -> [type |-> MT_PING, data |-> [timestamp |-> clock]]

\* one of the client actions is called
ClientActs ==
    /\ apc \in {"new", "up", "failed", "closed"}
    /\ Len(hOut) < MaxIntents + 2
    /\ \E action \in ClientActions :
         SendMessage(ActionMessage(action).type, ActionMessage(action).data, 100)
    /\ UNCHANGED <<connected, running, sock, session_id, player_id, incoming_queue,
                   threadVars, netVars, gs, clock, fileVars, flowVars, callVars, questVars, hFrames, hEnq, hApplied,
                   hPopped, hDropped, hTick, codecVars>>

\* the caller, the client actions and the send thread, on a connection whose
\* write side may fail
ActionsNext == Caller \/ ClientActs \/ SendThread \/ WriteBreaks

SpecActions == Init /\ [][ActionsNext]_vars

\* the message types of the client actions
ActionTypes == {ActionMessage(action).type : action \in ClientActions}

\* C28: a step in which a client action runs (login inside connect,
\* send_logout inside disconnect, or any of the seven called on its own) puts
\* exactly one item, the message it built, at the back of the outbound
\* queue, and leaves the store, the inbound queue, the connection flags, the
\* socket and both threads as they were; it runs whatever the state of the
\* socket and the length of the queue.
C28_ActionOnlyEnqueues ==
    [][ (ClientActs \/ ConnectLogin \/ (DisconnectLogout /\ sock # "none")) =>
          /\ Len(hOut') = Len(hOut) + 1
          /\ hOut'[Len(hOut')].msg.type \in ActionTypes
          /\ outgoing_queue' = Append(outgoing_queue, hOut'[Len(hOut')])
          /\ packets_sent' = packets_sent + 1
          /\ UNCHANGED <<gs, incoming_queue, connected, running, sock, session_id,
                         player_id, rpc, spc, shold, netVars>>
      ]_vars

\* ping was called after disconnect() had closed the socket, with the logout
\* still on the queue: it was queued behind it
C28_Witness ==
    /\ sock = "closed"
    /\ Len(outgoing_queue) >= 2
    /\ outgoing_queue[Len(outgoing_queue)].msg.type = MT_PING
    /\ outgoing_queue[Len(outgoing_queue) - 1].msg.type = MT_LOGOUT
    /\ ~connected


(***************************************************************************)
(* Both ends of the framing: what send_loop writes is read by a peer that  *)
(* sends it back, and receive_loop splits the returning bytes at the       *)
(* newlines.  A raw item is JSON text, in which json.dumps escapes every   *)
(* newline; a compressed item is the output of zlib.compress, whose bytes  *)
(* depend on the text and may include the newline byte.                    *)
(***************************************************************************)
\* the two parts of a zlib stream with a newline byte inside, as receive_loop
\* sees them: the first starts with b'x' and does not inflate, the second is
\* neither a zlib stream nor text
FZlibHead == Frame(TRUE, FALSE, TRUE, NotJson)
FZlibTail == Frame(FALSE, FALSE, FALSE, NotJson)

\* the bytes of message + b'\n' for an item of the outbound queue
WireBytes(item, newlineInside) ==
    IF ~item.z THEN <<Plain(item.msg), NL>>
    ELSE IF newlineInside THEN <<FZlibHead, NL, FZlibTail, NL>>
    ELSE <<Compressed(item.msg), NL>>

\* the peer reads the first frame the client wrote and sends it back
PeerEchoes ==
    /\ sock = "open" /\ rdCond = "up"
    /\ wire_out # << >>
    /\ \E newlineInside \in BOOLEAN :
         wire_in' = wire_in \o WireBytes(Head(wire_out), newlineInside)
    /\ wire_out' = Tail(wire_out)
    /\ UNCHANGED <<clientVars, threadVars, rdCond, wrBroken, gs, clock, fileVars, flowVars, callVars, questVars,
                   histVars, codecVars>>

LoopbackNext == Connecting \/ SendChat \/ SendThread \/ ReceiveThread \/ PeerEchoes
                  \/ PeerCloses \/ ReadBreaks \/ WriteBreaks

SpecLoopback == Init /\ [][LoopbackNext]_vars

\* len(json.dumps(message)) of a message of the outbound queue: a chat
\* message carries its length, every other message is short
TextLenOf(item) ==
    IF item.msg.type = MT_CHAT THEN item.msg.data.message ELSE 100

\* C29: a message is put on the outbound queue compressed exactly when its
\* serialized text is longer than 1024, and the receiver takes every
\* transmitted frame for what it is: the n-th frame it splits off is the
\* n-th message, taken as compressed (and inflated) exactly when that message
\* was compressed.
C29_CompressedFramesRecognised ==
    /\ \A i \in 1..Len(hOut) : hOut[i].z = (TextLenOf(hOut[i]) > 1024)
    /\ \A i \in 1..Len(hFrames) :
          /\ i <= Len(hOut)
          /\ hFrames[i].x = hOut[i].z
          /\ hFrames[i].doc = DictDoc(hOut[i].msg)


(***************************************************************************)
(* save_state and load_state.  The file is what json.load makes of what    *)
(* json.dump wrote: the keys of a JSON object are strings, so the entity   *)
(* ids come back as their decimal strings.                                 *)
(***************************************************************************)
\* str(n) of an entity id, and int(s) of such a string
StrOf(n) == [str |-> n]
IntOf(s) == s.str

\* save_state(filename): what the file holds
SaveState(g) ==
    [exists |-> TRUE,
     player |-> g.player,
     entities |-> [s \in {StrOf(eid) : eid \in DOMAIN g.entities} |-> g.entities[IntOf(s)]],
     chunks |-> [ckey \in DOMAIN g.chunks |->
                   [chunk_x |-> g.chunks[ckey].chunk_x,
                    chunk_z |-> g.chunks[ckey].chunk_z,
                    loaded |-> g.chunks[ckey].loaded]],
     game_time |-> g.game_time,
     time_of_day |-> g.time_of_day]

\* WorldChunk(**cdata): chunk_x, chunk_z, terrain_data and entities have no
\* default
WorldChunkTakes(cdata) ==
    {"chunk_x", "chunk_z", "terrain_data", "entities"} \subseteq DOMAIN cdata

\* load_state(filename): the store it leaves and what it returns.  Whatever
\* is raised inside is caught, and what was assigned before stays assigned.
LoadState(g, file, now) ==
    IF ~file.exists THEN [gs |-> g, ret |-> "False"]
    ELSE LET withPlayer == [g EXCEPT !.player = file.player]
             withEntities ==
                 [withPlayer EXCEPT !.entities =
                     [eid \in {IntOf(s) : s \in DOMAIN file.entities} |->
                        file.entities[StrOf(eid)]]]
             cleared == [withEntities EXCEPT !.chunks = EmptyDict]
         IN IF \E ckey \in DOMAIN file.chunks : ~WorldChunkTakes(file.chunks[ckey])
            THEN [gs |-> cleared, ret |-> "False"]
            ELSE [gs |-> [cleared EXCEPT
                             !.chunks =
                                 [ckey \in DOMAIN file.chunks |->
                                    [chunk_x |-> file.chunks[ckey].chunk_x,
                                     chunk_z |-> file.chunks[ckey].chunk_z,
                                     terrain_data |-> file.chunks[ckey].terrain_data,
                                     entities |-> file.chunks[ckey].entities,
                                     loaded |-> Get(file.chunks[ckey], "loaded", FALSE),
                                     last_accessed |-> now]],
                             !.game_time = file.game_time,
                             !.time_of_day = file.time_of_day],
                  ret |-> "True"]

\* records that bring a chunk, an entity, and a change of the player
SnapshotRecords ==
    { RChunk12, REntity5AtTen, [type |-> "player_update", health |-> 55] }

\* apply_server_update(record)
SnapshotApply ==
    /\ Len(hApplied) < MaxWorldApplies
    /\ \E record \in SnapshotRecords :
         /\ gs' = ApplyServerUpdate(gs, record, clock).gs
         /\ hApplied' = Append(hApplied, record)
    /\ UNCHANGED <<clientVars, threadVars, netVars, clock, fileVars, flowVars, callVars, questVars, hFrames, hEnq,
                   hOut, hPopped, hDropped, hTick, codecVars>>

\* update(0.1) with the forward key held
StoreUpdate ==
    /\ gs.game_time < MaxUpdates * 100
    /\ gs' = UpdateStore(gs, [NoInput EXCEPT !.forward = TRUE], 100, clock)
    /\ UNCHANGED <<clientVars, threadVars, netVars, clock, fileVars, flowVars, callVars, questVars, histVars, codecVars>>

\* save_state(filename): open(filename, 'w') is outside any try, so what it
\* raises on a path that cannot be written leaves the method; otherwise the
\* file is written and the method falls off its end
SaveStateCall ==
    /\ \E canWrite \in BOOLEAN :
         IF canWrite
         THEN /\ saved_file' = SaveState(gs)
              /\ hSaved' = gs
              /\ hSaveResult' = "None"
         ELSE /\ hSaveResult' = "raised"
              /\ UNCHANGED <<saved_file, hSaved>>
    /\ UNCHANGED <<clientVars, threadVars, netVars, gs, clock, hLoaded, flowVars, callVars, questVars,
                   histVars, codecVars>>

\* load_state(filename)
LoadStateCall ==
    /\ gs' = LoadState(gs, saved_file, clock).gs
    /\ hLoaded' = LoadState(gs, saved_file, clock).ret
    /\ UNCHANGED <<clientVars, threadVars, netVars, clock, saved_file, hSaved,
                   hSaveResult, flowVars, callVars, questVars, histVars,
                   codecVars>>

SnapshotNext == SnapshotApply \/ StoreUpdate \/ SaveStateCall \/ LoadStateCall

SpecSnapshot == Init /\ [][SnapshotNext]_vars

\* C30: load_state of the file save_state wrote returns True and leaves the
\* store with the player, the entity map, the chunk keys with their chunk_x,
\* chunk_z and loaded, and the game_time and time_of_day that the store had
\* when it was saved.
C30_SnapshotRoundTrip ==
    [][ (LoadStateCall /\ saved_file.exists) =>
          /\ hLoaded' = "True"
          /\ gs'.player = hSaved.player
          /\ gs'.entities = hSaved.entities
          /\ DOMAIN gs'.chunks = DOMAIN hSaved.chunks
          /\ \A ckey \in DOMAIN hSaved.chunks :
                /\ gs'.chunks[ckey].chunk_x = hSaved.chunks[ckey].chunk_x
                /\ gs'.chunks[ckey].chunk_z = hSaved.chunks[ckey].chunk_z
                /\ gs'.chunks[ckey].loaded = hSaved.chunks[ckey].loaded
          /\ gs'.game_time = hSaved.game_time
          /\ gs'.time_of_day = hSaved.time_of_day
      ]_vars

\* C31: neither save_state nor load_state lets an exception leave the
\* method: a save or a load that fails ends with a returned value.
C31_SnapshotFailureIsReturned ==
    /\ hSaveResult # "raised"
    /\ hLoaded \in {"none", "True", "False"}

\* C32: every message the client puts on the outbound queue carries a
\* sequence number, and of two messages the later one carries the strictly
\* greater number.
C32_SequenceStrictlyIncreases ==
    \A i, j \in 1..Len(hOut) :
        i < j =>
            /\ "sequence" \in DOMAIN hOut[i].msg
            /\ "sequence" \in DOMAIN hOut[j].msg
            /\ hOut[i].msg.sequence < hOut[j].msg.sequence


(***************************************************************************)
(* process_messages against a receive thread that does not stop putting    *)
(* records on incoming_queue.  The histories stay as they are, so that a   *)
(* call that goes on for ever is a cycle of states.                        *)
(***************************************************************************)
\* number of records the receive thread is ahead of the main thread
MaxQueued == 2

\* records of an entity, of the player, and of an entity without an id
DrainRecords ==
    { REntity5AtOrigin, [type |-> "player_update", health |-> 55],
      [type |-> "entity_update", entities |-> <<ENoId>>] }

\* receive_loop: self.incoming_queue.put(message) of one more frame
ReceiverPuts ==
    /\ connected /\ rpc \in {"loop", "recv", "frames"}
    /\ Len(incoming_queue) < MaxQueued
    /\ \E record \in DrainRecords : incoming_queue' = QueuePut(incoming_queue, record)
    /\ UNCHANGED <<connected, running, sock, session_id, player_id, packets_sent,
                   outgoing_queue, threadVars, netVars, gs, clock, fileVars, flowVars, callVars, questVars, histVars,
                   codecVars>>

\* the main thread enters process_messages
DrainBegins ==
    /\ tpc = "idle"
    /\ tpc' = "drain"
    /\ UNCHANGED <<clientVars, apc, rpc, rbuf, rexit, spc, shold, sexit, netVars, gs,
                   clock, fileVars, flowVars, callVars, questVars, histVars, codecVars>>

\* one turn of "while not self.incoming_queue.empty()": the call is over when
\* the queue is found empty or apply_server_update raises
DrainTurn ==
    /\ tpc = "drain"
    /\ IF incoming_queue = << >>
       THEN /\ tpc' = "idle"
            /\ UNCHANGED <<incoming_queue, gs>>
       ELSE LET r == ApplyServerUpdate(gs, QueueFront(incoming_queue), clock) IN
            /\ incoming_queue' = QueueRest(incoming_queue)
            /\ gs' = r.gs
            /\ tpc' = IF r.exc = "" THEN tpc ELSE "idle"
    /\ UNCHANGED <<connected, running, sock, session_id, player_id, packets_sent,
                   outgoing_queue, apc, rpc, rbuf, rexit, spc, shold, sexit, netVars,
                   clock, fileVars, flowVars, callVars, questVars, histVars, codecVars>>

DrainNext == Connecting \/ ReceiverPuts \/ DrainBegins \/ DrainTurn

SpecDrain == Init /\ [][DrainNext]_vars

\* the main thread is not held up: update is scheduled sixty times a second
\* and nothing in process_messages waits
FairSpecDrain == SpecDrain /\ WF_vars(DrainBegins) /\ WF_vars(DrainTurn)

\* C33: every call of process_messages comes to its end, whatever the
\* receive thread puts on the queue meanwhile.
C33_DrainTerminates == (tpc = "drain") ~> (tpc = "idle")

(***************************************************************************)
(* connect() and disconnect() called any number of times.  Each connect()  *)
(* that reaches the server starts a receive thread and a send thread;      *)
(* self.receive_thread and self.send_thread name the last pair only, and   *)
(* every thread reads self.running and self.socket anew on each turn of    *)
(* its loop.  The two join(timeout=1.0) of disconnect() return when the    *)
(* thread has ended or the second is over, so a thread can outlive them.   *)
(***************************************************************************)
\* number of login and logout messages the calls put on the outbound queue
MaxCalls == 4

\* connect(): the socket is replaced first; when socket.connect raises the
\* except branch clears connected, otherwise the flags are set, a new pair
\* of threads is started and login() is called
ConnectCall ==
    /\ \E reachable \in BOOLEAN :
         IF reachable
         THEN /\ Len(hOut) < MaxCalls
              /\ sock' = "open"
              /\ running' = TRUE
              /\ connected' = TRUE
              /\ receive_alive' = receive_alive + 1
              /\ send_alive' = send_alive + 1
              /\ SendMessage(MT_LOGIN, LoginData, 100)
         ELSE /\ sock' = "unconnected"
              /\ connected' = FALSE
              /\ UNCHANGED <<running, flowVars, outgoing_queue, packets_sent, hOut>>
    /\ UNCHANGED <<session_id, player_id, incoming_queue, threadVars, netVars, gs, clock,
                   fileVars, callVars, questVars, hFrames, hEnq, hApplied, hPopped, hDropped, hTick,
                   codecVars>>

\* disconnect(): the flags, send_logout() and close() when there is a socket,
\* and the two joins
DisconnectCall ==
    /\ running' = FALSE
    /\ connected' = FALSE
    /\ IF sock = "none"
       THEN UNCHANGED <<sock, outgoing_queue, packets_sent, hOut>>
       ELSE /\ Len(hOut) < MaxCalls
            /\ SendMessage(MT_LOGOUT, EmptyDict, 100)
            /\ sock' = "closed"
    /\ UNCHANGED <<session_id, player_id, incoming_queue, threadVars, netVars, gs, clock,
                   fileVars, flowVars, callVars, questVars, hFrames, hEnq, hApplied, hPopped, hDropped, hTick,
                   codecVars>>

\* a thread leaves receive_loop: it finds self.running False, or recv on
\* self.socket raises (the socket is closed, or was never connected)
ReceiveFlowExits ==
    /\ receive_alive > 0
    /\ \E cause \in {"stopped", "error"} :
         /\ cause = "stopped" => ~running
         /\ cause = "error" => sock # "open"
         /\ connected' = IF cause = "error" THEN FALSE ELSE connected
    /\ receive_alive' = receive_alive - 1
    /\ UNCHANGED <<running, sock, session_id, player_id, packets_sent, outgoing_queue,
                   incoming_queue, threadVars, netVars, gs, clock, fileVars, send_alive, callVars, questVars,
                   histVars, codecVars>>

\* a thread leaves send_loop at "while self.running"
SendFlowStops ==
    /\ send_alive > 0
    /\ ~running
    /\ send_alive' = send_alive - 1
    /\ UNCHANGED <<clientVars, threadVars, netVars, gs, clock, fileVars, receive_alive,
                   callVars, questVars, histVars, codecVars>>

\* one turn of send_loop by one of the threads inside it: the message is
\* written to self.socket, or sendall raises and the thread breaks
SendFlowTurn ==
    /\ send_alive > 0
    /\ running
    /\ outgoing_queue # << >>
    /\ outgoing_queue' = QueueRest(outgoing_queue)
    /\ hPopped' = IF connected THEN Append(hPopped, QueueFront(outgoing_queue)) ELSE hPopped
    /\ IF sock = "open" /\ ~wrBroken
       THEN /\ wire_out' = Append(wire_out, QueueFront(outgoing_queue))
            /\ UNCHANGED <<send_alive, hDropped>>
       ELSE /\ send_alive' = send_alive - 1
            /\ hDropped' = Append(hDropped, QueueFront(outgoing_queue))
            /\ UNCHANGED wire_out
    /\ UNCHANGED <<connected, running, sock, session_id, player_id, packets_sent,
                   incoming_queue, threadVars, rdCond, wrBroken, wire_in, gs, clock,
                   fileVars, receive_alive, callVars, questVars, hFrames, hEnq, hApplied, hOut, hTick,
                   codecVars>>

FlowsNext == ConnectCall \/ DisconnectCall \/ ReceiveFlowExits \/ SendFlowStops
               \/ SendFlowTurn

SpecFlows == Init /\ [][FlowsNext]_vars

\* C34: whatever connect() and disconnect() calls were made, at most one
\* thread is inside receive_loop and at most one inside send_loop.
C34_OneFlowOfEachKind ==
    /\ receive_alive <= 1
    /\ send_alive <= 1


(***************************************************************************)
(* Updates of the fields of a known entity                                 *)
(***************************************************************************)
\* number of records applied
MaxFieldApplies == 2

\* the payload that makes entity 7 known
E7Created ==
    [id |-> 7, type |-> "npc", mesh |-> "orc.mesh", material |-> "orc",
     position |-> <<1000, 0, 1000>>, rotation |-> <<0, 0, 0, 1>>,
     health |-> 150, max_health |-> 200, animation |-> "idle",
     data |-> [name |-> "orc", level |-> 3]]

\* what a later payload for entity 7 can carry: fields the client takes, and
\* fields it has no use for after the entity is made
E7Reported ==
    [id |-> 7, rotation |-> <<0, 1, 0, 0>>, health |-> 40, visible |-> FALSE,
     animation |-> "walk", data |-> [level |-> 4, mood |-> "angry"],
     max_health |-> 999, type |-> "boss", mesh |-> "x.mesh"]

\* a payload for each choice of the fields carried, and the one with all
E7Updates ==
    { [k \in ({"id"} \cup carried) |-> E7Reported[k]] :
        carried \in SUBSET {"rotation", "health", "visible", "animation", "data",
                            "max_health"} }
      \cup {E7Reported}

FieldRecords ==
    { [type |-> "entity_update", entities |-> <<e>>] : e \in {E7Created} \cup E7Updates }

\* apply_server_update(record)
FieldsApply ==
    /\ Len(hApplied) < MaxFieldApplies
    /\ \E record \in FieldRecords :
         /\ gs' = ApplyServerUpdate(gs, record, clock).gs
         /\ hApplied' = Append(hApplied, record)
    /\ UNCHANGED <<clientVars, threadVars, netVars, clock, fileVars, flowVars, callVars, questVars, hFrames,
                   hEnq, hOut, hPopped, hDropped, hTick, codecVars>>

SpecEntityFields == Init /\ [][FieldsApply]_vars

\* C35: an update applied to a known entity sets rotation, health, visible
\* and animation to the reported value when the payload carries one, gives
\* the data mapping the reported keys with their reported values and leaves
\* its other keys as they were, and leaves alone every field the payload
\* does not carry as well as the identifier, the type, the mesh and material
\* names and max_health.
C35_KnownEntityFieldsReplacedAndMerged ==
    [][ (Applied /\ LastApplied.entities[1].id \in DOMAIN gs.entities) =>
          LET entity_data == LastApplied.entities[1]
              before == gs.entities[entity_data.id]
              after == gs'.entities[entity_data.id]
              reported == Get(entity_data, "data", EmptyDict)
          IN /\ \A f \in {"rotation", "health", "visible", "animation"} :
                   after[f] = IF f \in DOMAIN entity_data THEN entity_data[f] ELSE before[f]
             /\ DOMAIN after.data = DOMAIN before.data \cup DOMAIN reported
             /\ \A key \in DOMAIN after.data :
                   after.data[key] = IF key \in DOMAIN reported THEN reported[key]
                                     ELSE before.data[key]
             /\ \A f \in {"entity_id", "entity_type", "mesh_name", "material_name",
                          "max_health", "velocity"} :
                   after[f] = before[f]
             /\ "position" \notin DOMAIN entity_data => after.position = before.position
      ]_vars

\* entity 7 is known, and a payload with health and data and without
\* rotation has been applied to it: level is overwritten, mood is new, name
\* is kept
C35_Witness ==
    /\ Len(hApplied) = 2
    /\ hApplied[1].entities[1] = E7Created
    /\ DOMAIN hApplied[2].entities[1] = {"id", "health", "data"}
    /\ gs.entities[7].health = 40
    /\ gs.entities[7].rotation = <<0, 0, 0, 1>>
    /\ gs.entities[7].data = [name |-> "orc", level |-> 4, mood |-> "angry"]
    /\ gs.entities[7].max_health = 200


\* C36: the frames the receive thread splits off the returning stream are,
\* in order, the messages that were written, one frame for one message: each
\* is whole (a compressed one inflates, the text decodes) and is the JSON
\* document of its message, and there are never more frames than messages.
C36_FramingIntegrity ==
    /\ Len(hFrames) <= Len(hOut)
    /\ \A i \in 1..Len(hFrames) :
          /\ hFrames[i].x => hFrames[i].inflates
          /\ hFrames[i].utf8
          /\ i <= Len(hOut) => hFrames[i].doc = DictDoc(hOut[i].msg)


\* C37: a load_state that returns False leaves the store as it was: the
\* player, the entities, the chunks and both clocks are those of before the
\* call.
C37_FailedLoadLeavesStore ==
    [][ (LoadStateCall /\ hLoaded' = "False") =>
          /\ gs'.player = gs.player
          /\ gs'.entities = gs.entities
          /\ gs'.chunks = gs.chunks
          /\ gs'.game_time = gs.game_time
          /\ gs'.time_of_day = gs.time_of_day
      ]_vars


(***************************************************************************)
(* send_message statement by statement, called by the thread that runs     *)
(* connect() (login) and by the main thread (send_chat, which the GUI      *)
(* calls once connected is True).  The queue's put is atomic;              *)
(* "self.packets_sent += 1" reads the attribute and stores the sum in two  *)
(* instructions, with no lock held.                                        *)
(***************************************************************************)
\* message = {...}; ...; self.outgoing_queue.put(...)
SendMessagePut(t, msg_type, data, textLen) ==
    /\ sending[t].at = "out"
    /\ LET item == OutItem(msg_type, data, textLen, session_id, player_id, Len(hOut) + 1) IN
         /\ outgoing_queue' = QueuePut(outgoing_queue, item)
         /\ hOut' = Append(hOut, item)
    /\ sending' = [sending EXCEPT ![t].at = "put"]

\* connect(): self.login() up to the put
LoginPuts ==
    /\ apc = "login"
    /\ SendMessagePut("connect", MT_LOGIN, LoginData, 100)
    /\ UNCHANGED <<connected, running, sock, session_id, player_id, packets_sent,
                   incoming_queue, threadVars, netVars, gs, clock, fileVars, flowVars, questVars,
                   hFrames, hEnq, hApplied, hPopped, hDropped, hTick, codecVars>>

\* send_chat(message) up to the put
ChatPuts ==
    /\ connected
    /\ Len(hOut) < MaxIntents + 1
    /\ \E n \in ChatTextLens :
         SendMessagePut("main", MT_CHAT, [message |-> n, channel |-> "global"], n)
    /\ UNCHANGED <<connected, running, sock, session_id, player_id, packets_sent,
                   incoming_queue, threadVars, netVars, gs, clock, fileVars, flowVars, questVars,
                   hFrames, hEnq, hApplied, hPopped, hDropped, hTick, codecVars>>

\* self.packets_sent += 1: the attribute is read
PacketsSentLoad ==
    /\ \E t \in DOMAIN sending :
         /\ sending[t].at = "put"
         /\ sending' = [sending EXCEPT ![t] = [at |-> "loaded", seen |-> packets_sent]]
    /\ UNCHANGED <<clientVars, threadVars, netVars, gs, clock, fileVars, flowVars, questVars,
                   histVars, codecVars>>

\* self.packets_sent += 1: the sum is stored and send_message returns; after
\* login() connect() returns True
PacketsSentStore ==
    /\ \E t \in DOMAIN sending :
         /\ sending[t].at = "loaded"
         /\ packets_sent' = sending[t].seen + 1
         /\ sending' = [sending EXCEPT ![t] = [at |-> "out", seen |-> 0]]
         /\ apc' = IF t = "connect" THEN "up" ELSE apc
    /\ UNCHANGED <<connected, running, sock, session_id, player_id, outgoing_queue,
                   incoming_queue, rpc, rbuf, rexit, spc, shold, sexit, tpc, netVars, gs,
                   clock, fileVars, flowVars, questVars, histVars, codecVars>>

CounterNext == ConnectFails \/ ConnectStart \/ LoginPuts \/ ChatPuts \/ PacketsSentLoad
                 \/ PacketsSentStore \/ SendThread \/ WriteBreaks

SpecCounter == Init /\ [][CounterNext]_vars

\* C38: whenever no thread is inside send_message, packets_sent is the
\* number of messages that were put on the outbound queue.
C38_PacketsSentCountsPuts ==
    (\A t \in DOMAIN sending : sending[t].at = "out") => packets_sent = Len(hOut)


(***************************************************************************)
(* scripts/quests.py.  The module runs inside the game server and reaches  *)
(* it through the object server, which is not part of these sources: of    *)
(* it the model keeps the players that get_player knows, with their        *)
(* levels, a current time that grows, and the fact that give_player_item   *)
(* and fire_event return.  A dict is a function; the order in which a      *)
(* player's quests were put into the dict is the order of their accepted   *)
(* times.                                                                  *)
(***************************************************************************)
\* quests_db
quests_db ==
    (1 :> [id |-> 1, name |-> "Beginnings", level_requirement |-> 1,
           objectives |-> << [id |-> 1, type |-> "kill", target |-> "goblin", count |-> 5],
                             [id |-> 2, type |-> "collect", item |-> "goblin_ear",
                              count |-> 3] >>,
           rewards |-> [experience |-> 100, gold |-> 50, items |-> <<"beginner_sword">>]])
    @@
    (2 :> [id |-> 2, name |-> "Wolf Hunt", level_requirement |-> 5,
           objectives |-> << [id |-> 1, type |-> "kill", target |-> "wolf", count |-> 10],
                             [id |-> 2, type |-> "collect", item |-> "wolf_pelt",
                              count |-> 5] >>,
           rewards |-> [experience |-> 500, gold |-> 200, items |-> <<"leather_armor">>]])

\* server.get_player: a player of level 1 and one of level 5; no player 3
ServerPlayers == (1 :> [level |-> 1]) @@ (2 :> [level |-> 5])

\* what the calls of the quest module have made so far: the progress dict,
\* the rewards given, and the exception that has ended the call ("" if none)
QuestState(pq, rewards) == [pq |-> pq, rewards |-> rewards, exc |-> ""]

\* can_accept_quest (pl_id is the player_id of the quest module: the name
\* player_id is the network client's)
CanAcceptQuest(pq, pl_id, quest_id) ==
    /\ quest_id \in DOMAIN quests_db
    /\ pl_id \in DOMAIN ServerPlayers
    /\ Get(ServerPlayers[pl_id], "level", 1) >= quests_db[quest_id].level_requirement
    /\ ~(pl_id \in DOMAIN pq /\ quest_id \in DOMAIN pq[pl_id])

\* accept_quest: the progress it makes, and what it returns
AcceptQuest(pq, pl_id, quest_id) ==
    IF ~CanAcceptQuest(pq, pl_id, quest_id) THEN [pq |-> pq, ret |-> "False"]
    ELSE LET quest == quests_db[quest_id]
             held == Get(pq, pl_id, EmptyDict)
             progress ==
                 [accepted |-> Cardinality(DOMAIN held) + 1,
                  objectives |->
                     [obj_id \in { quest.objectives[i].id : i \in 1..Len(quest.objectives) } |->
                        LET objective == CHOOSE o \in { quest.objectives[i] :
                                                          i \in 1..Len(quest.objectives) } :
                                             o.id = obj_id
                        IN [current |-> 0, required |-> objective.count,
                            completed |-> FALSE]],
                  completed |-> FALSE]
         IN [pq |-> Put(pq, pl_id, Put(held, quest_id, progress)), ret |-> "True"]

\* check_quest_completion
CheckQuestCompletion(pq, pl_id, quest_id) ==
    /\ pl_id \in DOMAIN pq
    /\ quest_id \in DOMAIN pq[pl_id]
    /\ \A obj_id \in DOMAIN pq[pl_id][quest_id].objectives :
          pq[pl_id][quest_id].objectives[obj_id].completed

\* a complete_quest that does not look whether the quest is completed
\* already, to show what the once-only property rests on
CompleteQuestAgain(s, pl_id, quest_id) ==
    IF ~(pl_id \in DOMAIN s.pq /\ quest_id \in DOMAIN s.pq[pl_id]) THEN s
    ELSE [s EXCEPT !.pq[pl_id][quest_id].completed = TRUE,
                   !.rewards = Put(@, <<pl_id, quest_id>>,
                                   Get(@, <<pl_id, quest_id>>, 0) + 1)]

\* complete_quest: the quest is marked and the rewards are given (the
\* experience event, the items, the quest_completed event)
CompleteQuest(s, pl_id, quest_id) ==
    IF ~(pl_id \in DOMAIN s.pq /\ quest_id \in DOMAIN s.pq[pl_id]) THEN s
    ELSE IF s.pq[pl_id][quest_id].completed THEN s
    ELSE IF quest_id \notin DOMAIN quests_db THEN s
    ELSE [s EXCEPT !.pq[pl_id][quest_id].completed = TRUE,
                   !.rewards = Put(@, <<pl_id, quest_id>>,
                                   Get(@, <<pl_id, quest_id>>, 0) + 1)]

Min(a, b) == IF a < b THEN a ELSE b

\* update_quest_progress, the body of "for objective in quest['objectives']"
\* for one objective: objective['target'] is a KeyError on an objective
\* that has no such key
UpdateObjective(s, pl_id, quest_id, objective, objective_type, target, amount) ==
    IF objective.type # objective_type THEN s
    ELSE IF "target" \notin DOMAIN objective THEN [s EXCEPT !.exc = "KeyError"]
    ELSE IF objective.target # target THEN s
    ELSE LET obj_id == objective.id
             quest_data == s.pq[pl_id][quest_id]
         IN IF obj_id \notin DOMAIN quest_data.objectives THEN s
            ELSE LET current == quest_data.objectives[obj_id].current
                     required == quest_data.objectives[obj_id].required
                     new_progress == Min(current + amount, required)
                     s1 == [s EXCEPT
                              !.pq[pl_id][quest_id].objectives[obj_id].current =
                                  new_progress,
                              !.pq[pl_id][quest_id].objectives[obj_id].completed =
                                  IF new_progress >= required THEN TRUE ELSE @]
                 IN IF CheckQuestCompletion(s1.pq, pl_id, quest_id)
                    THEN CompleteQuest(s1, pl_id, quest_id)
                    ELSE s1

\* the objectives of one quest, in order, up to the first exception
RECURSIVE UpdateObjectives(_, _, _, _, _, _, _)
UpdateObjectives(s, pl_id, quest_id, objectives, objective_type, target, amount) ==
    IF objectives = << >> \/ s.exc # "" THEN s
    ELSE UpdateObjectives(
             UpdateObjective(s, pl_id, quest_id, Head(objectives), objective_type,
                             target, amount),
             pl_id, quest_id, Tail(objectives), objective_type, target, amount)

\* the quests of a player in the order they were accepted
HeldInOrder(held) ==
    CHOOSE order \in [1..Cardinality(DOMAIN held) -> DOMAIN held] :
        \A i, j \in DOMAIN order : i < j => held[order[i]].accepted < held[order[j]].accepted

\* "for quest_id, quest_data in player_quests[pl_id].items()": a quest
\* that is completed is passed over
RECURSIVE UpdateQuests(_, _, _, _, _, _)
UpdateQuests(s, pl_id, quest_ids, objective_type, target, amount) ==
    IF quest_ids = << >> \/ s.exc # "" THEN s
    ELSE LET quest_id == Head(quest_ids)
             s1 == IF s.pq[pl_id][quest_id].completed
                      \/ quest_id \notin DOMAIN quests_db
                   THEN s
                   ELSE UpdateObjectives(s, pl_id, quest_id,
                                         quests_db[quest_id].objectives, objective_type,
                                         target, amount)
         IN UpdateQuests(s1, pl_id, Tail(quest_ids), objective_type, target, amount)

\* update_quest_progress(pl_id, objective_type, target, amount)
UpdateQuestProgress(s, pl_id, objective_type, target, amount) ==
    IF pl_id \notin DOMAIN s.pq THEN s
    ELSE UpdateQuests(s, pl_id, HeldInOrder(s.pq[pl_id]), objective_type,
                      target, amount)

\* ---- the calls ----
\* the player ids of the calls (3 is no player) and of the events (0 stands
\* for an event without a player id), the quest ids (9 is no quest), what
\* is killed and what is collected ("" stands for an event without that key)
CallPlayerIds == {1, 2, 3}
EventPlayerIds == {0, 1, 2}
CallQuestIds == {1, 2, 9}
KillTargets == {"goblin", "wolf"}
CollectItems == {"goblin_ear", "wolf_pelt"}

\* the variables of everything but the quest module
RestOfVars == <<codecVars, clientVars, threadVars, netVars, gs, clock, fileVars, flowVars,
                callVars, histVars>>

\* the state after a call into update_quest_progress, and how the call ended
ProgressCall(call, pl_id, objective_type, target, amount) ==
    LET s == UpdateQuestProgress(QuestState(player_quests, rewards_given), pl_id,
                                 objective_type, target, amount)
    IN /\ player_quests' = s.pq
       /\ rewards_given' = s.rewards
       /\ quest_call' = call
       /\ quest_result' = IF s.exc = "" THEN "None" ELSE s.exc

\* accept_quest(pl_id, quest_id)
AcceptQuestCall ==
    /\ \E pl_id \in CallPlayerIds, quest_id \in CallQuestIds :
         /\ player_quests' = AcceptQuest(player_quests, pl_id, quest_id).pq
         /\ quest_result' = AcceptQuest(player_quests, pl_id, quest_id).ret
         /\ quest_call' = "accept_quest"
    /\ UNCHANGED <<rewards_given, RestOfVars>>

\* complete_quest(pl_id, quest_id)
CompleteQuestCall ==
    /\ \E pl_id \in CallPlayerIds, quest_id \in CallQuestIds :
         LET s == CompleteQuest(QuestState(player_quests, rewards_given), pl_id,
                                quest_id)
         IN /\ player_quests' = s.pq
            /\ rewards_given' = s.rewards
            /\ quest_call' = "complete_quest"
            /\ quest_result' = "None"
    /\ UNCHANGED RestOfVars

\* on_player_kill(event_data)
OnPlayerKill ==
    /\ \E pl_id \in EventPlayerIds, target_type \in KillTargets \cup {""} :
         IF pl_id # 0 /\ target_type # ""
         THEN ProgressCall("on_player_kill", pl_id, "kill", target_type, 1)
         ELSE /\ quest_call' = "on_player_kill"
              /\ quest_result' = "None"
              /\ UNCHANGED <<player_quests, rewards_given>>
    /\ UNCHANGED RestOfVars

\* on_item_collected(event_data)
OnItemCollected ==
    /\ \E pl_id \in EventPlayerIds, item_id \in CollectItems \cup {""} :
         IF pl_id # 0 /\ item_id # ""
         THEN ProgressCall("on_item_collected", pl_id, "collect", item_id, 1)
         ELSE /\ quest_call' = "on_item_collected"
              /\ quest_result' = "None"
              /\ UNCHANGED <<player_quests, rewards_given>>
    /\ UNCHANGED RestOfVars

\* update_quest_progress(pl_id, "kill", target, 3) called as such
UpdateQuestProgressCall ==
    /\ \E pl_id \in EventPlayerIds \ {0}, target \in KillTargets :
         ProgressCall("update_quest_progress", pl_id, "kill", target, 3)
    /\ UNCHANGED RestOfVars

QuestNext == AcceptQuestCall \/ CompleteQuestCall \/ OnPlayerKill \/ OnItemCollected
               \/ UpdateQuestProgressCall

SpecQuests == Init /\ [][QuestNext]_vars


C40_ProgressEventsNeverFail ==
    [][ (OnPlayerKill \/ OnItemCollected) => quest_result' = "None" ]_vars

====
